---- MODULE Spec2Model ----
(***************************************************************************)
(* Model of the rat-ftable table widget: the render pass of               *)
(* Table::render_iter with its three row-count algorithms, and the        *)
(* vertical scroll bookkeeping of TableState.                             *)
(*                                                                         *)
(* Option<usize> values are modelled as sequences: <<>> is None and       *)
(* <<v>> is Some(v).  Row heights are sequences of naturals, one per row  *)
(* of the data source.  Vertical positions are relative to table_area.y.  *)
(***************************************************************************)
EXTENDS Integers, Sequences, FiniteSets, TLC

\* ---------------------------------------------------------------- bounds
MaxRows == 3          \* rows a data source holds
MaxHeight == 2        \* height of one row
MaxAreaHeight == 3    \* table_area.height handed to a render
MaxOffset == 4        \* offsets handed to set_row_offset
MaxPos == 3           \* rows handed to scroll_to_row

\* usize::MAX, scaled to the integer range of the model checker.
USIZE_MAX == 32767

\* ------------------------------------------------------- Option<usize>
None == <<>>
Some(v) == <<v>>

\* row.map_or(0, |v| v + 1)
map_or_count(row) == IF row = None THEN 0 ELSE row[1] + 1

saturating_sub(a, b) == IF a >= b THEN a - b ELSE 0

Min2(a, b) == IF a <= b THEN a ELSE b
Max2(a, b) == IF a >= b THEN a ELSE b

\* ------------------------------------------------------------ DataRepr
\* The widget's data: nothing, a random-access TableData (TextTableData
\* included), or a forward TableDataIter that reports an optional count.
\* data holds the height of every row the source yields (at least 1 each),
\* report what TableDataIter::rows returns, cloned whether cloned() yields
\* a cursor.  no_row_count is read only when no count is reported, and the
\* data of an iterator is not read when cloned() fails.  Every row has the
\* least or the largest height.
HeightSeqs == UNION {[1..n -> {1, MaxHeight}] : n \in 0..MaxRows}
Reports == {None} \cup {Some(r) : r \in 0..(MaxRows + 1)}

Tables ==
    {[repr |-> "None", data |-> <<>>, report |-> None,
      cloned |-> TRUE, no_row_count |-> FALSE]}
    \cup {[repr |-> "Data", data |-> d, report |-> None,
           cloned |-> TRUE, no_row_count |-> FALSE] : d \in HeightSeqs}
    \cup {[repr |-> "Iter", data |-> d, report |-> r,
           cloned |-> TRUE, no_row_count |-> FALSE] :
              d \in HeightSeqs, r \in Reports}
    \cup {[repr |-> "Iter", data |-> d, report |-> None,
           cloned |-> TRUE, no_row_count |-> TRUE] : d \in HeightSeqs}
    \cup {[repr |-> "Iter", data |-> d, report |-> None,
           cloned |-> FALSE, no_row_count |-> FALSE] : d \in HeightSeqs}

\* A cursor over the data.  row is the cursor of the index based variants,
\* consumed/item the state of a forward iterator.
NewIter(kind, t) ==
    [kind |-> kind, data |-> t.data, report |-> t.report,
     row |-> None, consumed |-> 0, item |-> FALSE]

\* DataRepr::into_iter
into_iter(t) ==
    CASE t.repr = "None" -> NewIter("None", t)
      [] t.repr = "Data" -> NewIter("IterData", t)
      [] t.repr = "Iter" -> NewIter("IterIter", t)

\* DataRepr::iter
iter(t) ==
    CASE t.repr = "None" -> NewIter("None", t)
      [] t.repr = "Data" -> NewIter("IterData", t)
      [] t.repr = "Iter" ->
            IF t.cloned THEN NewIter("IterIter", t) ELSE NewIter("Invalid", t)

rows_of_invalid_empty(it) ==
    CASE it.kind = "None" -> Some(0)
      [] it.kind = "Invalid" -> Some(0)
      [] it.kind = "IterData" -> Some(Len(it.data))
      [] it.kind = "IterIter" -> it.report

\* DataReprIter::rows
rows_of(it) ==
    CASE it.kind = "None" -> Some(0)
      [] it.kind = "Invalid" -> Some(1)
      [] it.kind = "IterData" -> Some(Len(it.data))
      [] it.kind = "IterIter" -> it.report

\* the closure incr of DataReprIter::nth.  w + n + 1 is a usize sum:
\* overflow tells that it exceeds usize::MAX, where a build with overflow
\* checks panics and a build without them continues with the wrapped sum.
incr(row, nrows, n) ==
    IF row = None
    THEN [row |-> Some(n), ok |-> n < nrows, overflow |-> FALSE]
    ELSE LET sum == (row[1] + n + 1) % (USIZE_MAX + 1)
         IN  [row |-> Some(sum), ok |-> sum < nrows,
              overflow |-> row[1] + n + 1 > USIZE_MAX]

\* TableDataIter::nth of a forward iterator over a slice
RowIter_nth(it, n) ==
    IF it.consumed + n < Len(it.data)
    THEN [it |-> [it EXCEPT !.consumed = it.consumed + n + 1, !.item = TRUE],
          ok |-> TRUE]
    ELSE [it |-> [it EXCEPT !.consumed = Len(it.data), !.item = FALSE],
          ok |-> FALSE]

\* DataReprIter::nth
nth(it, n) ==
    CASE it.kind = "None" -> [it |-> it, ok |-> FALSE, overflow |-> FALSE]
      [] it.kind = "Invalid" ->
            LET r == incr(it.row, 1, n)
            IN [it |-> [it EXCEPT !.row = r.row], ok |-> r.ok,
                overflow |-> r.overflow]
      [] it.kind = "IterData" ->
            LET r == incr(it.row, Len(it.data), n)
            IN [it |-> [it EXCEPT !.row = r.row], ok |-> r.ok,
                overflow |-> r.overflow]
      [] it.kind = "IterIter" -> RowIter_nth(it, n)

\* DataReprIter::row_height, called on a valid cursor only
row_height(it) ==
    CASE it.kind = "None" -> 1
      [] it.kind = "Invalid" -> 1
      [] it.kind = "IterData" -> it.data[it.row[1] + 1]
      [] it.kind = "IterIter" -> it.data[it.consumed]

\* Rows of the source the cursor has moved over.
Visited(it) ==
    CASE it.kind = "None" -> 0
      [] it.kind = "Invalid" -> map_or_count(it.row)
      [] it.kind = "IterData" -> map_or_count(it.row)
      [] it.kind = "IterIter" -> it.consumed

\* ------------------------------------------------------ Table::render_iter
\* The loop that renders the visible rows, entered with the cursor on the
\* row at the vertical offset.  Returns the cursor, the index of the last
\* row rendered, the heights collected and the page length.
RECURSIVE render_rows(_, _, _, _, _, _)
render_rows(it, row, row_y, row_heights, plen, H) ==
    LET height == row_height(it)
        heights1 == Append(row_heights, height)
        \* visible_row_area.bottom() after the intersection with table_area
        bottom == Max2(row_y, Min2(row_y + Max2(height, 1), H))
        next == nth(it, 0)
    IN  IF bottom >= H
        THEN [it |-> it, row |-> Some(row), row_heights |-> heights1,
              page_len |-> plen + 1]
        ELSE IF ~next.ok
        THEN [it |-> next.it, row |-> Some(row), row_heights |-> heights1,
              page_len |-> plen + 1]
        ELSE render_rows(next.it, row + 1, row_y + height, heights1,
                         plen + 1, H)

\* The first skip to the offset and the page rendered from there.
render_page(data, off, H) ==
    LET first == nth(data, off)
    IN  IF first.ok
        THEN render_rows(first.it, off, 0, <<>>, 0, H)
        ELSE [it |-> first.it, row |-> None, row_heights |-> <<>>,
              page_len |-> 0]

\* algorithm 0: while data.nth(0) { row += 1 }
RECURSIVE drain(_, _, _)
drain(it, row, row_heights) ==
    LET next == nth(it, 0)
    IN  IF next.ok
        THEN drain(next.it, row + 1, row_heights)
        ELSE [it |-> next.it, row |-> Some(row), row_heights |-> row_heights]

\* algorithm 0: the loop collecting the remaining row heights, left when
\* the source ends or passes the reported count, and the drain after it
RECURSIVE collect_heights(_, _, _, _, _)
collect_heights(it, row, row_heights, nrows, H) ==
    LET pushed == Append(row_heights, row_height(it))
        heights1 == IF Len(pushed) > H THEN Tail(pushed) ELSE pushed
        next == nth(it, 0)
    IN  IF ~next.ok
        THEN drain(next.it, row, heights1)
        ELSE IF row + 1 > nrows
        THEN drain(next.it, row + 1, heights1)
        ELSE collect_heights(next.it, row + 1, heights1, nrows, H)

\* algorithm 2: read all the rest, keeping the newest heights
RECURSIVE read_rest(_, _, _, _)
read_rest(it, row, row_heights, H) ==
    LET next == nth(it, 0)
        pushed == Append(row_heights, row_height(next.it))
        heights1 == IF Len(pushed) > H THEN Tail(pushed) ELSE pushed
    IN  IF next.ok
        THEN read_rest(next.it, Some(map_or_count(row)), heights1, H)
        ELSE [it |-> next.it, row |-> row, row_heights |-> row_heights]

\* TableState::calc_last_page: [sum_heights, n_rows] after the pop loop
RECURSIVE pop_heights(_, _, _, _)
pop_heights(row_heights, sum_heights, n_rows, H) ==
    IF row_heights = <<>>
    THEN [sum_heights |-> sum_heights, n_rows |-> n_rows]
    ELSE LET h == row_heights[Len(row_heights)]
         IN  IF sum_heights + h >= H
             THEN [sum_heights |-> sum_heights + h, n_rows |-> n_rows + 1]
             ELSE pop_heights(SubSeq(row_heights, 1, Len(row_heights) - 1),
                              sum_heights + h, n_rows + 1, H)

calc_last_page(row_heights, H) ==
    LET r == pop_heights(row_heights, 0, 0, H)
    IN  IF r.sum_heights < H THEN None ELSE Some(r.n_rows)

\* usize subtraction of a release build
wrapping_sub(a, b) == IF a >= b THEN a - b ELSE USIZE_MAX + 1 - (b - a)

\* algorithm 0: skip to a guess for the last page and collect the
\* remaining row heights
last_page_scan(page, nrows, H) ==
    LET skip_rows ==
            saturating_sub(saturating_sub(nrows, map_or_count(page.row)), H)
        heights0 == IF skip_rows > 0 THEN <<>> ELSE page.row_heights
        skipped == nth(page.it, skip_rows)
        row1 == IF page.row = None THEN skip_rows
                ELSE page.row[1] + skip_rows + 1
    IN  IF skipped.ok
        THEN collect_heights(skipped.it, row1, heights0, nrows, H)
        ELSE [it |-> skipped.it, row |-> page.row, row_heights |-> heights0]

\* state.vscroll.set_max_offset(state.rows - last_page), or the fallback
\* when no last page was found; overflow tells that the subtraction
\* overflows
set_max_offset(res, last_page, fallback) ==
    [res EXCEPT
        !.overflow = last_page # None /\ last_page[1] > res.rows,
        !.max_offset = IF last_page # None
                       THEN wrapping_sub(res.rows, last_page[1])
                       ELSE fallback]

algorithm0_counted(page, scan, nrows, H) ==
    set_max_offset(
        [algorithm |-> 0, it |-> scan.it, rows |-> map_or_count(scan.row),
         counted_rows |-> map_or_count(scan.row),
         page_len |-> page.page_len, overflow |-> FALSE, max_offset |-> 0],
        calc_last_page(scan.row_heights, H),
        saturating_sub(map_or_count(scan.row), H))

\* algorithm 0 after the scan: rows, _counted_rows and the max_offset
algorithm0_set(page, scan, nrows, H) ==
    set_max_offset(
        [algorithm |-> 0, it |-> scan.it, rows |-> nrows,
         counted_rows |-> map_or_count(scan.row),
         page_len |-> page.page_len, overflow |-> FALSE, max_offset |-> 0],
        calc_last_page(scan.row_heights, H),
        saturating_sub(nrows, H))

\* algorithm 0: the source reports a row count
algorithm0(page, nrows, H) ==
    algorithm0_set(page, last_page_scan(page, nrows, H), nrows, H)

algorithm1_no_sentinel(page, H) ==
    LET one == nth(page.it, 0)
        two == nth(one.it, 0)
        row == IF page.row = None THEN None
               ELSE IF ~one.ok THEN page.row
               ELSE Some(page.row[1] + 1)
    IN  [algorithm |-> 1,
         it |-> IF page.row = None THEN page.it
                ELSE IF one.ok THEN two.it ELSE one.it,
         rows |-> map_or_count(row),
         counted_rows |-> map_or_count(row),
         page_len |-> IF page.page_len = 0 THEN H ELSE page.page_len,
         overflow |-> FALSE,
         max_offset |-> USIZE_MAX - 1]

algorithm1_row_index(page, H) ==
    LET one == nth(page.it, 0)
        two == nth(one.it, 0)
        row == IF page.row = None THEN None
               ELSE IF ~one.ok THEN page.row
               ELSE IF two.ok THEN Some(USIZE_MAX - 1)
               ELSE Some(page.row[1] + 1)
    IN  [algorithm |-> 1,
         it |-> IF page.row = None THEN page.it
                ELSE IF one.ok THEN two.it ELSE one.it,
         rows |-> IF row = None THEN 0 ELSE row[1],
         counted_rows |-> map_or_count(row),
         page_len |-> IF page.page_len = 0 THEN H ELSE page.page_len,
         overflow |-> FALSE,
         max_offset |-> USIZE_MAX - 1]

\* algorithm 1: no row count, no_row_count set
algorithm1(page, H) ==
    LET one == nth(page.it, 0)
        two == nth(one.it, 0)
        row == IF page.row = None THEN None
               ELSE IF ~one.ok THEN page.row
               ELSE IF two.ok THEN Some(USIZE_MAX - 1)
               ELSE Some(page.row[1] + 1)
    IN  [algorithm |-> 1,
         it |-> IF page.row = None THEN page.it
                ELSE IF one.ok THEN two.it ELSE one.it,
         rows |-> map_or_count(row),
         counted_rows |-> map_or_count(row),
         page_len |-> IF page.page_len = 0 THEN H ELSE page.page_len,
         overflow |-> FALSE,
         max_offset |-> USIZE_MAX - 1]

\* algorithm 2 after the scan: rows, _counted_rows and the max_offset
algorithm2_set(page, rest, H) ==
    set_max_offset(
        [algorithm |-> 2, it |-> rest.it, rows |-> map_or_count(rest.row),
         counted_rows |-> map_or_count(rest.row),
         page_len |-> page.page_len, overflow |-> FALSE, max_offset |-> 0],
        calc_last_page(rest.row_heights, H),
        0)

\* algorithm 2: no row count, read everything
algorithm2(page, H) ==
    algorithm2_set(page, read_rest(page.it, page.row, page.row_heights, H), H)

\* The maximum offsets: which algorithm runs after the page is rendered.
max_offsets(page, no_row_count, H) ==
    IF rows_of(page.it) # None THEN algorithm0(page, rows_of(page.it)[1], H)
    ELSE IF no_row_count THEN algorithm1(page, H)
    ELSE algorithm2(page, H)

insane_offset_empty_too(page) ==
    page.row = None /\ rows_of(page.it) # None

\* insane_offset: the first skip failed although the source has rows
insane_offset(page) ==
    page.row = None /\ ~(rows_of(page.it) = None \/ rows_of(page.it) = Some(0))

\* ------------------------------------------------------------------ state
VARIABLES
    table,              \* the Table widget: its data and no_row_count
    debug_assertions,   \* the build: cfg(debug_assertions)
    table_area_height,  \* TableState::table_area.height
    rows,               \* TableState::rows
    counted_rows,       \* TableState::_counted_rows
    offset,             \* TableState::vscroll.offset
    max_offset,         \* TableState::vscroll.max_offset
    page_len,           \* TableState::vscroll.page_len
    diag,               \* diagnostics written by the last render
    panicked,           \* a render pass panicked
    algorithm,          \* algorithm of the last render, -1 before any
    page_row,           \* last row of the page of the last render
    probed,             \* rows the last render advanced beyond its page
    op,                 \* the last operation
    arg,                \* its argument
    ret,                \* its return value
    selection,          \* TableState::selection
    pre,                \* history: what the last operations started from,
                        \* kept while a sequence of a claim is under way
    mode,               \* EditVecState::mode
    editor_data,        \* EditVecState::editor_data, the backing Vec
    editor,             \* EditVecState::editor, its edit data
    result,             \* Result of the last editor operation
    table_focus,        \* TableState::focus
    editor_focus,       \* EditVecState::editor_focus
    widths,             \* Table::widths, each a Constraint::Length
    column_spacing,     \* Table::column_spacing
    border,             \* width of the border of Table::block, 0 without
    area_width,         \* width of the area the table is rendered to
    x_offset,           \* TableState::hscroll.offset
    x_max_offset,       \* TableState::hscroll.max_offset
    x_page_len,         \* TableState::hscroll.page_len
    columns,            \* TableState::columns
    table_area,         \* TableState::table_area: its x and width
    column_areas,       \* TableState::column_areas: x and width of each
    column_layout,      \* TableState::column_layout: x and width of each
    row_areas,          \* TableState::row_areas: the row each one shows
    rendered_cols       \* columns render_cell was called for in a row

vars == <<table, debug_assertions, table_area_height, rows, counted_rows,
          offset, max_offset, page_len, diag, panicked, algorithm, page_row,
          probed, op, arg, ret, selection, pre, mode, editor_data, editor,
          result, table_focus, editor_focus, widths, column_spacing, border,
          area_width, x_offset, x_max_offset, x_page_len, columns,
          table_area, column_areas, column_layout, row_areas, rendered_cols>>

\* the state of the selection and of the editor overlay
sel_vars == <<selection, pre>>
edit_vars ==
    <<mode, editor_data, editor, result, table_focus, editor_focus>>

\* the columns of the widget and the area it renders to
config_vars == <<widths, column_spacing, border, area_width>>

\* what a render computes for the columns and the rows it shows
geometry_vars ==
    <<x_max_offset, x_page_len, columns, table_area, column_areas,
      column_layout, row_areas, rendered_cols>>

\* the horizontal state
col_vars == <<config_vars, geometry_vars, x_offset>>

\* RowSelection::default
RowSelection == [lead_row |-> None]

\* a widget without columns, rendered to an area without width
NoColumns ==
    /\ widths = <<>>
    /\ column_spacing = 0
    /\ border = 0
    /\ area_width = 0

\* TableState::default and EditVecState::new, for any widget and either
\* build, without the selection and the rows of the editor
InitTableState ==
    /\ table \in Tables
    /\ debug_assertions \in BOOLEAN
    /\ table_area_height = 0
    /\ rows = 0
    /\ counted_rows = 0
    /\ offset = 0
    /\ max_offset = 0
    /\ page_len = 0
    /\ diag = {}
    /\ panicked = FALSE
    /\ algorithm = -1
    /\ page_row = None
    /\ probed = 0
    /\ op = "default"
    /\ arg = 0
    /\ ret = FALSE
    /\ pre = None
    /\ mode = "View"
    /\ editor = None
    /\ result = "Ok"
    /\ table_focus = FALSE
    /\ editor_focus = FALSE
    /\ x_offset = 0
    /\ x_max_offset = 0
    /\ x_page_len = 0
    /\ columns = 0
    /\ table_area = [x |-> 0, width |-> 0]
    /\ column_areas = <<>>
    /\ column_layout = <<>>
    /\ row_areas = <<>>
    /\ rendered_cols = {}

\* TableState<RowSelection>::default
Init ==
    /\ InitTableState
    /\ selection = RowSelection
    /\ editor_data = <<>>
    /\ NoColumns

\* the diagnostic block at the end of render_iter, debug builds only
diagnostics(page, res) ==
    IF debug_assertions
    THEN (IF insane_offset(page) THEN {"insane_offset"} ELSE {})
         \cup (IF res.rows # res.counted_rows THEN {"rows_dont_match"} ELSE {})
    ELSE {}

\* ------------------------------------------- the columns in render_iter
RECURSIVE SumWidths(_, _)
SumWidths(ws, spacing) ==
    IF ws = <<>> THEN 0
    ELSE ws[1] + spacing + SumWidths(Tail(ws), spacing)

\* Table::total_width with auto_layout_width
total_width == SumWidths(widths, column_spacing)

\* Table::layout_columns: the columns the layout solver places in
\* total_width, each followed by a spacer
l_columns ==
    [i \in 1..Len(widths) |->
        [x |-> SumWidths(SubSeq(widths, 1, i - 1), column_spacing),
         width |-> widths[i]]]

\* l_spacers[col + 1], the spacer that follows the column (col is i - 1)
l_spacers ==
    [i \in 1..Len(widths) |->
        [x |-> l_columns[i].x + widths[i], width |-> column_spacing]]

Right(r) == r.x + r.width

\* Rect::intersection along x
intersection(a, b) ==
    [x |-> Max2(a.x, b.x),
     width |-> saturating_sub(Min2(Right(a), Right(b)), Max2(a.x, b.x))]

\* layout_scroll and layout_areas: the table area inside the block
inner_area ==
    [x |-> border, width |-> saturating_sub(area_width, 2 * border)]

\* Table::calculate_column_areas: column_layout
layout_of_columns ==
    [i \in 1..Len(widths) |->
        [x |-> l_columns[i].x,
         width |-> l_columns[i].width + l_spacers[i].width]]

\* Table::calculate_column_areas without the intersection
v_area_unclipped(col, shift, area) ==
    [x |-> area.x + Max2(0, col.x - shift),
     width |-> Max2(0, Right(col) - shift) - Max2(0, col.x - shift)]

\* Table::calculate_column_areas: the area of one column, scrolled and
\* clipped
v_area(col, shift, area) ==
    intersection(
        [x |-> area.x + Max2(0, col.x - shift),
         width |-> Max2(0, Right(col) - shift) - Max2(0, col.x - shift)],
        area)

\* Table::calculate_column_areas: column_areas
areas_of_columns ==
    [i \in 1..Len(widths) |->
        v_area(layout_of_columns[i], x_offset, inner_area)]

\* the test "partially visible?" of render_iter
partially_visible(cell) ==
    Right(cell) > x_offset \/ cell.x < x_offset + area_width

\* render_columns that limits the horizontal offset to its maximum
render_columns_clamping(shown) ==
    /\ columns' = Len(widths)
    /\ table_area' = inner_area
    /\ column_layout' = layout_of_columns
    /\ column_areas' = areas_of_columns
    /\ x_page_len' = area_width
    /\ x_max_offset' = saturating_sub(total_width, inner_area.width)
    /\ row_areas' = [i \in 1..shown |-> offset + i - 1]
    /\ rendered_cols' =
        IF shown = 0 THEN {}
        ELSE {col \in 0..(Len(widths) - 1) :
                partially_visible(l_columns[col + 1])}
    /\ x_offset' =
        Min2(x_offset, saturating_sub(total_width, inner_area.width))
    /\ UNCHANGED config_vars

\* the part of render_iter that lays out and renders the columns; shown is
\* the number of rows the pass renders
render_columns(shown) ==
    /\ columns' = Len(widths)
    /\ table_area' = inner_area
    /\ column_layout' = layout_of_columns
    /\ column_areas' = areas_of_columns
    /\ x_page_len' = area_width
    /\ x_max_offset' = saturating_sub(total_width, inner_area.width)
    /\ row_areas' = [i \in 1..shown |-> offset + i - 1]
    /\ rendered_cols' =
        IF shown = 0 THEN {}
        ELSE {col \in 0..(Len(widths) - 1) :
                partially_visible(l_columns[col + 1])}
    /\ UNCHANGED <<config_vars, x_offset>>

render_iter_clamping(data, H) ==
    \E page \in {render_page(data, offset, H)} :
    \E res \in {max_offsets(page, table.no_row_count, H)} :
    LET panics == res.overflow /\ debug_assertions
    IN  /\ ~panicked
        /\ table_area_height' = H
        /\ rows' = res.rows
        /\ counted_rows' = res.counted_rows
        /\ page_len' = res.page_len
        /\ max_offset' = IF panics THEN max_offset ELSE res.max_offset
        /\ panicked' = panics
        /\ diag' = IF panics THEN {} ELSE diagnostics(page, res)
        /\ algorithm' = res.algorithm
        /\ page_row' = page.row
        /\ probed' = Visited(res.it) - Visited(page.it)
        /\ arg' = 0
        /\ ret' = FALSE
        /\ offset' = IF panics THEN offset ELSE Min2(offset, res.max_offset)
        /\ render_columns(page.page_len)
        /\ UNCHANGED <<table, debug_assertions, sel_vars, edit_vars>>

\* Table::render_iter on the cursor data with a table area of height H.
\* state.rows - last_page panics in a debug build when it overflows and
\* wraps in a release build.
render_iter(data, H) ==
    \E page \in {render_page(data, offset, H)} :
    \E res \in {max_offsets(page, table.no_row_count, H)} :
    LET panics == res.overflow /\ debug_assertions
    IN  /\ ~panicked
        /\ table_area_height' = H
        /\ rows' = res.rows
        /\ counted_rows' = res.counted_rows
        /\ page_len' = res.page_len
        /\ max_offset' = IF panics THEN max_offset ELSE res.max_offset
        /\ panicked' = panics
        /\ diag' = IF panics THEN {} ELSE diagnostics(page, res)
        /\ algorithm' = res.algorithm
        /\ page_row' = page.row
        /\ probed' = Visited(res.it) - Visited(page.it)
        /\ arg' = 0
        /\ ret' = FALSE
        /\ render_columns(page.page_len)
        /\ UNCHANGED <<table, debug_assertions, offset, sel_vars, edit_vars>>

\* StatefulWidget::render
Render(H) ==
    /\ op' = "render"
    /\ render_iter(into_iter(table), H)

\* StatefulWidgetRef::render_ref
RenderRef(H) ==
    /\ op' = "render_ref"
    /\ render_iter(iter(table), H)

\* TableState::set_row_offset: the new offset and whether it changed.
\* ScrollState of rat_scrolled is read as keeping the offset it is given;
\* the render pass relies on that when it tests for an insane offset.
set_row_offset(new) == [offset |-> new, changed |-> new # offset]

SetRowOffset(new) ==
    /\ ~panicked
    /\ offset' = set_row_offset(new).offset
    /\ ret' = set_row_offset(new).changed
    /\ op' = "set_row_offset"
    /\ arg' = new
    /\ UNCHANGED <<table, debug_assertions, table_area_height, rows,
                   counted_rows, max_offset, page_len, diag, panicked,
                   algorithm, page_row, probed, sel_vars, edit_vars,
                   col_vars>>

\* a usize sum or difference as a build without overflow checks keeps it
wrapping(v) == v % (USIZE_MAX + 1)

\* TableState::scroll_to_row; overflow tells that row_offset() + page_len()
\* or pos - page_len() leaves the range of usize
scroll_to_row(pos) ==
    IF pos >= wrapping(offset + page_len)
    THEN [offset |-> wrapping(pos - page_len + 1),
          changed |-> wrapping(pos - page_len + 1) # offset,
          overflow |-> offset + page_len > USIZE_MAX \/ pos < page_len]
    ELSE IF pos < offset
    THEN [offset |-> pos, changed |-> pos # offset,
          overflow |-> offset + page_len > USIZE_MAX]
    ELSE [offset |-> offset, changed |-> FALSE,
          overflow |-> offset + page_len > USIZE_MAX]

ScrollToRow(pos) ==
    LET panics == scroll_to_row(pos).overflow /\ debug_assertions
    IN  /\ ~panicked
        /\ panicked' = panics
        /\ offset' = IF panics THEN offset ELSE scroll_to_row(pos).offset
        /\ ret' = IF panics THEN FALSE ELSE scroll_to_row(pos).changed
        /\ op' = "scroll_to_row"
        /\ arg' = pos
        /\ UNCHANGED <<table, debug_assertions, table_area_height, rows,
                       counted_rows, max_offset, page_len, diag, algorithm,
                       page_row, probed, sel_vars, edit_vars, col_vars>>

Next ==
    \/ \E H \in 0..MaxAreaHeight : Render(H)
    \/ \E H \in 0..MaxAreaHeight : RenderRef(H)
    \/ \E new \in 0..MaxOffset : SetRowOffset(new)
    \/ \E pos \in 0..MaxPos : ScrollToRow(pos)

Spec == Init /\ [][Next]_vars

\* ------------------------------------------------- TableState<RowSelection>
MaxN == 2             \* items handed to items_added and items_removed

\* Option<usize> arguments
Positions == {None} \cup {Some(p) : p \in 0..MaxPos}

\* RowSelection::items_added: a lead at or after pos moves by n
selection_items_added(sel, pos, n) ==
    IF sel.lead_row # None /\ sel.lead_row[1] >= pos
    THEN [sel EXCEPT !.lead_row = Some(sel.lead_row[1] + n)]
    ELSE sel

\* RowSelection::items_removed: a lead after the removed range moves by n,
\* a lead inside it collapses onto pos
selection_items_removed(sel, pos, n) ==
    IF sel.lead_row # None /\ sel.lead_row[1] >= pos + n
    THEN [sel EXCEPT !.lead_row = Some(sel.lead_row[1] - n)]
    ELSE IF sel.lead_row # None /\ sel.lead_row[1] >= pos
    THEN [sel EXCEPT !.lead_row = Some(pos)]
    ELSE sel

\* ScrollState::items_added: the window moves with the rows it shows
vscroll_items_added(scroll, pos, n) ==
    [offset |-> IF scroll.offset >= pos THEN scroll.offset + n
                ELSE scroll.offset,
     max_offset |-> scroll.max_offset + n]

\* ScrollState::items_removed
vscroll_items_removed(scroll, pos, n) ==
    [offset |-> IF scroll.offset >= pos + n THEN scroll.offset - n
                ELSE IF scroll.offset >= pos THEN pos
                ELSE scroll.offset,
     max_offset |-> saturating_sub(scroll.max_offset, n)]

vscroll == [offset |-> offset, max_offset |-> max_offset]

items_added_one_more(pos, n) ==
    [rows |-> rows + n + 1,
     vscroll |-> vscroll_items_added(vscroll, pos, n),
     selection |-> selection_items_added(selection, pos, n)]

\* TableState<RowSelection>::items_added
items_added(pos, n) ==
    [rows |-> rows + n,
     vscroll |-> vscroll_items_added(vscroll, pos, n),
     selection |-> selection_items_added(selection, pos, n)]

items_removed_one(pos, n) ==
    [rows |-> wrapping_sub(rows, 1),
     overflow |-> 1 > rows,
     vscroll |-> vscroll_items_removed(vscroll, pos, n),
     selection |-> selection_items_removed(selection, pos, n)]

\* TableState<RowSelection>::items_removed; self.rows -= n overflows when
\* n > rows: a panic in a debug build, a wrapped count in a release build
items_removed(pos, n) ==
    [rows |-> wrapping_sub(rows, n),
     overflow |-> n > rows,
     vscroll |-> vscroll_items_removed(vscroll, pos, n),
     selection |-> selection_items_removed(selection, pos, n)]

\* the fields no operation of the selection touches
render_vars == <<table, debug_assertions, table_area_height, counted_rows,
                 page_len, diag, algorithm, page_row, probed, col_vars>>

ItemsAdded(pos, n) ==
    \E new \in {items_added(pos, n)} :
        /\ ~panicked
        /\ new.rows <= MaxRows
        /\ new.vscroll.offset <= MaxOffset
        /\ new.vscroll.max_offset <= MaxOffset
        /\ new.selection.lead_row # None =>
                new.selection.lead_row[1] <= MaxPos + MaxN
        /\ rows' = new.rows
        /\ offset' = new.vscroll.offset
        /\ max_offset' = new.vscroll.max_offset
        /\ selection' = new.selection
        /\ pre' = Some([rows |-> rows, selection |-> selection])
        /\ op' = "items_added"
        /\ arg' = <<pos, n>>
        /\ ret' = FALSE
        /\ UNCHANGED <<render_vars, panicked, edit_vars>>

ItemsRemoved(pos, n) ==
    \E new \in {items_removed(pos, n)} :
    LET panics == new.overflow /\ debug_assertions
    IN  /\ ~panicked
        /\ rows <= MaxRows
        /\ panicked' = panics
        /\ rows' = IF panics THEN rows ELSE new.rows
        /\ offset' = IF panics THEN offset ELSE new.vscroll.offset
        /\ max_offset' = IF panics THEN max_offset ELSE new.vscroll.max_offset
        /\ selection' = IF panics THEN selection ELSE new.selection
        /\ pre' = IF op = "items_added" /\ arg = <<pos, n>> /\ ~panics
                  THEN pre ELSE None
        /\ op' = "items_removed"
        /\ arg' = <<pos, n>>
        /\ ret' = FALSE
        /\ UNCHANGED <<render_vars, edit_vars>>

\* RowSelection::select
selection_select(sel, row) == [sel EXCEPT !.lead_row = row]

\* TableState<RowSelection>::select
Select(row) ==
    /\ ~panicked
    /\ selection' = selection_select(selection, row)
    /\ ret' = (selection' # selection)
    /\ pre' = None
    /\ op' = "select"
    /\ arg' = row
    /\ UNCHANGED <<render_vars, rows, offset, max_offset, panicked, edit_vars>>

\* a table state the rows of which are kept by items_added/items_removed
InitItems == Init /\ table.repr = "None"

NextItems ==
    \/ \E row \in Positions : Select(row)
    \/ \E pos \in 0..MaxPos, n \in 0..MaxN : ItemsAdded(pos, n)
    \/ \E pos \in 0..MaxPos, n \in 0..MaxN : ItemsRemoved(pos, n)

SpecItems == InitItems /\ [][NextItems]_vars

\* RowSelection::move_to: the row, limited to maximum
selection_move_to(sel, row, maximum) ==
    [sel EXCEPT !.lead_row = Some(Min2(row, maximum))]

\* RowSelection::move_up: n rows up from the lead, from row 0 without one
selection_move_up(sel, n, maximum) ==
    [sel EXCEPT !.lead_row =
        IF sel.lead_row = None THEN Some(0)
        ELSE Some(Min2(saturating_sub(sel.lead_row[1], n), maximum))]

\* RowSelection::move_down: n rows down from the lead, limited to maximum
selection_move_down(sel, n, maximum) ==
    [sel EXCEPT !.lead_row =
        IF sel.lead_row = None THEN Some(0)
        ELSE Some(Min2(sel.lead_row[1] + n, maximum))]

moved_selection_only(sel) ==
    [selection |-> sel,
     offset |-> scroll_to_row(sel.lead_row[1]).offset,
     changed |-> sel # selection]

\* the tail of move_to, move_up and move_down: scroll to the selected row
\* and return r || s
moved(sel) ==
    [selection |-> sel,
     offset |-> scroll_to_row(sel.lead_row[1]).offset,
     changed |-> sel # selection \/ scroll_to_row(sel.lead_row[1]).changed]

\* TableState<RowSelection>::move_to
move_to(row) ==
    moved(selection_move_to(selection, row, saturating_sub(rows, 1)))

\* TableState<RowSelection>::move_up
move_up(n) ==
    moved(selection_move_up(selection, n, saturating_sub(rows, 1)))

\* TableState<RowSelection>::move_down
move_down(n) ==
    moved(selection_move_down(selection, n, saturating_sub(rows, 1)))

\* the state after a move of the selection
Moved(a, new) ==
    /\ ~panicked
    /\ selection' = new.selection
    /\ offset' = new.offset
    /\ ret' = new.changed
    /\ pre' = None
    /\ arg' = a
    /\ UNCHANGED <<render_vars, rows, max_offset, panicked, edit_vars>>

MoveTo(row) ==
    /\ op' = "move_to"
    /\ Moved(row, move_to(row))

MoveUp(n) ==
    /\ op' = "move_up"
    /\ Moved(n, move_up(n))

MoveDown(n) ==
    /\ op' = "move_down"
    /\ Moved(n, move_down(n))

\* a table state over a random-access TableData
InitMove == Init /\ table.repr = "Data"

NextMove ==
    \/ \E H \in 0..MaxAreaHeight : Render(H)
    \/ \E new \in 0..MaxOffset : SetRowOffset(new)
    \/ \E row \in Positions : Select(row)
    \/ \E row \in 0..MaxPos : MoveTo(row)
    \/ \E n \in 0..MaxN : MoveUp(n)
    \/ \E n \in 0..MaxN : MoveDown(n)

SpecMove == InitMove /\ [][NextMove]_vars

\* ---------------------------------------------- TableState<RowSetSelection>
\* RowSetSelection::default
RowSetSelection == [anchor |-> None, lead |-> None, selected |-> {}]

\* the rows between anchor and lead, both included, in either order
active_range(sel) ==
    IF sel.lead = None THEN {}
    ELSE IF sel.anchor = None THEN {sel.lead[1]}
    ELSE Min2(sel.anchor[1], sel.lead[1])..Max2(sel.anchor[1], sel.lead[1])

\* RowSetSelection::set_lead: without extend anchor and lead collapse onto
\* row, with extend the anchor is held and the lead moves
set_lead(sel, row, extend) ==
    IF extend THEN [sel EXCEPT !.lead = row]
    ELSE [sel EXCEPT !.anchor = row, !.lead = row]

\* RowSetSelection::retire_selection
retire_selection(sel) ==
    [anchor |-> None, lead |-> None,
     selected |-> sel.selected \cup active_range(sel)]

SetLead_ignores_extend(row, extend) ==
    /\ ~panicked
    /\ selection' = set_lead(selection, row, FALSE)
    /\ ret' = (<<selection'.anchor, selection'.lead>>
                    # <<selection.anchor, selection.lead>>)
    /\ pre' = IF row = None THEN None
              ELSE IF ~extend /\ selection.selected = {} THEN Some(<<row[1]>>)
              ELSE IF extend /\ op = "set_lead" /\ pre # None
                        /\ Len(pre[1]) = 1
              THEN Some(Append(pre[1], row[1]))
              ELSE None
    /\ op' = "set_lead"
    /\ arg' = <<row, extend>>
    /\ UNCHANGED <<render_vars, rows, offset, max_offset, panicked, edit_vars>>

\* TableState<RowSetSelection>::set_lead
SetLead(row, extend) ==
    /\ ~panicked
    /\ selection' = set_lead(selection, row, extend)
    /\ ret' = (<<selection'.anchor, selection'.lead>>
                    # <<selection.anchor, selection.lead>>)
    /\ pre' = IF row = None THEN None
              ELSE IF ~extend /\ selection.selected = {} THEN Some(<<row[1]>>)
              ELSE IF extend /\ op = "set_lead" /\ pre # None
                        /\ Len(pre[1]) = 1
              THEN Some(Append(pre[1], row[1]))
              ELSE None
    /\ op' = "set_lead"
    /\ arg' = <<row, extend>>
    /\ UNCHANGED <<render_vars, rows, offset, max_offset, panicked, edit_vars>>

\* TableState<RowSetSelection>::retire_selection
RetireSelection ==
    /\ ~panicked
    /\ selection' = retire_selection(selection)
    /\ pre' = IF op = "set_lead" /\ pre # None /\ Len(pre[1]) = 2
              THEN pre ELSE None
    /\ op' = "retire_selection"
    /\ arg' = 0
    /\ ret' = FALSE
    /\ UNCHANGED <<render_vars, rows, offset, max_offset, panicked, edit_vars>>

\* TableState<RowSetSelection>::add_selected
AddSelected(idx) ==
    /\ ~panicked
    /\ selection' = [selection EXCEPT !.selected = @ \cup {idx}]
    /\ pre' = None
    /\ op' = "add_selected"
    /\ arg' = idx
    /\ ret' = FALSE
    /\ UNCHANGED <<render_vars, rows, offset, max_offset, panicked, edit_vars>>

\* TableState<RowSetSelection>::remove_selected
RemoveSelected(idx) ==
    /\ ~panicked
    /\ selection' = [selection EXCEPT !.selected = @ \ {idx}]
    /\ pre' = None
    /\ op' = "remove_selected"
    /\ arg' = idx
    /\ ret' = FALSE
    /\ UNCHANGED <<render_vars, rows, offset, max_offset, panicked, edit_vars>>

\* TableState<RowSetSelection>::default
InitRowSet ==
    /\ InitTableState
    /\ table.repr = "None"
    /\ selection = RowSetSelection
    /\ editor_data = <<>>
    /\ NoColumns

NextRowSet ==
    \/ \E row \in Positions, extend \in BOOLEAN : SetLead(row, extend)
    \/ RetireSelection
    \/ \E idx \in 0..MaxPos : AddSelected(idx)
    \/ \E idx \in 0..MaxPos : RemoveSelected(idx)

SpecRowSet == InitRowSet /\ [][NextRowSet]_vars

\* ------------------------------------------------------------ EditVecState
MaxEditRows == 1      \* rows the application loads into the editor
MaxEditHeight == 1    \* height of the area the editor renders to

\* S::Data: the values a row holds when the application loads it or the
\* editor changes it, and the value new_edit_data makes
Values == {"a", "b"}
NewValue == "new"
DataSeqs == UNION {[1..n -> Values] : n \in 0..MaxEditRows}

\* Vec::remove and Vec::insert, for an index inside the Vec
RemoveAt(data, row) ==
    SubSeq(data, 1, row) \o SubSeq(data, row + 2, Len(data))
InsertAt(data, row, value) ==
    SubSeq(data, 1, row) \o <<value>> \o SubSeq(data, row + 1, Len(data))

\* EditVecState with the fields of its table state that the editor uses
ST ==
    [mode |-> mode, data |-> editor_data, editor |-> editor,
     rows |-> rows, offset |-> offset, max_offset |-> max_offset,
     selection |-> selection, panicked |-> panicked, result |-> result,
     table_focus |-> table_focus, editor_focus |-> editor_focus]

\* self.table.items_added(pos, n)
table_items_added(st, pos, n) ==
    [st EXCEPT
        !.rows = @ + n,
        !.offset = vscroll_items_added(
            [offset |-> st.offset, max_offset |-> st.max_offset],
            pos, n).offset,
        !.max_offset = @ + n,
        !.selection = selection_items_added(@, pos, n)]

\* self.table.items_removed(pos, n)
table_items_removed(st, pos, n) ==
    IF n > st.rows /\ debug_assertions
    THEN [st EXCEPT !.panicked = TRUE]
    ELSE [st EXCEPT
            !.rows = wrapping_sub(@, n),
            !.offset = vscroll_items_removed(
                [offset |-> st.offset, max_offset |-> st.max_offset],
                pos, n).offset,
            !.max_offset = saturating_sub(@, n),
            !.selection = selection_items_removed(@, pos, n)]

\* self.table.scroll_to_row(pos): the new offset
table_scroll_to_row(st, pos) ==
    IF pos >= st.offset + page_len THEN pos - page_len + 1
    ELSE IF pos < st.offset THEN pos
    ELSE st.offset

\* self.table.move_to(row), after the selection has moved
table_moved(st, sel) ==
    [st EXCEPT
        !.selection = sel,
        !.offset = table_scroll_to_row(st, sel.lead_row[1])]

\* self.table.move_to(row)
table_move_to(st, row) ==
    table_moved(st, selection_move_to(st.selection, row,
                                      saturating_sub(st.rows, 1)))

\* EditVecState::_stop without the return of the focus
_stop_keeps_focus(st) == [st EXCEPT !.mode = "View"]

\* EditVecState::_stop
_stop(st) ==
    [st EXCEPT
        !.mode = "View",
        !.table_focus = IF st.editor_focus THEN TRUE ELSE @,
        !.editor_focus = FALSE]

\* the focus moves from the table to the editor at the start of _start
start_focus(st) ==
    [st EXCEPT
        !.table_focus = FALSE,
        !.editor_focus = IF st.table_focus THEN TRUE ELSE @]

\* EditVecState::_start once the focus has moved
start_mode(st, pos, new_mode) ==
    table_move_to(
        IF new_mode = "Insert"
        THEN table_items_added([st EXCEPT !.mode = new_mode], pos, 1)
        ELSE [st EXCEPT !.mode = new_mode],
        pos)

\* EditVecState::_start
_start(st, pos, new_mode) == start_mode(start_focus(st), pos, new_mode)

\* HasFocus::navigable of EditVecState; the table itself is a regular stop
\* of the focus order
navigable == IF mode = "View" THEN "Regular" ELSE "Lock"

\* the two scroll_to_row calls at the end of EditVecState::remove
remove_scroll(st, row) ==
    IF table_scroll_to_row(st, row) # st.offset
    THEN [st EXCEPT !.offset = table_scroll_to_row(st, row)]
    ELSE [st EXCEPT
            !.offset = table_scroll_to_row(st, saturating_sub(row, 1))]

\* the body of EditVecState::remove once the removed row is checked
remove_row(st, row) ==
    IF st.panicked THEN st ELSE remove_scroll(st, row)

\* EditVecState::remove
remove(st, row) ==
    IF st.mode # "View" THEN st
    ELSE IF row < Len(st.data)
    THEN remove_row(
            table_items_removed(
                [st EXCEPT !.data = RemoveAt(@, row)], row, 1),
            row)
    ELSE st

\* the operations of the editor that the application supplies and that may
\* fail
FailuresNew == {"none", "new_edit_data", "set_edit_data"}
FailuresEdit == {"none", "set_edit_data"}
FailuresCommit == {"none", "get_edit_data"}

\* EditVecState::edit_new without the test of the mode
edit_new_in_any_mode(st, row, fails) ==
    IF fails \in {"new_edit_data", "set_edit_data"}
    THEN [st EXCEPT !.result = "Err"]
    ELSE IF row > Len(st.data)
    THEN [st EXCEPT !.editor = Some(NewValue), !.panicked = TRUE]
    ELSE _start([st EXCEPT
                    !.editor = Some(NewValue),
                    !.data = InsertAt(@, row, NewValue),
                    !.result = "Ok"],
                row, "Insert")

\* EditVecState::edit_new; fails names the operation of the editor that
\* returns an error during this call
edit_new(st, row, fails) ==
    IF st.mode # "View" THEN [st EXCEPT !.result = "Ok"]
    ELSE IF fails \in {"new_edit_data", "set_edit_data"}
    THEN [st EXCEPT !.result = "Err"]
    ELSE IF row > Len(st.data)
    THEN [st EXCEPT !.editor = Some(NewValue), !.panicked = TRUE]
    ELSE _start([st EXCEPT
                    !.editor = Some(NewValue),
                    !.data = InsertAt(@, row, NewValue),
                    !.result = "Ok"],
                row, "Insert")

\* EditVecState::edit
edit(st, row, fails) ==
    IF st.mode # "View" THEN [st EXCEPT !.result = "Ok"]
    ELSE IF row >= Len(st.data) THEN [st EXCEPT !.panicked = TRUE]
    ELSE IF fails = "set_edit_data" THEN [st EXCEPT !.result = "Err"]
    ELSE _start([st EXCEPT
                    !.editor = Some(st.data[row + 1]),
                    !.result = "Ok"],
                row, "Edit")

\* the _stop at the end of EditVecState::cancel
cancel_stop(st) == IF st.panicked THEN st ELSE _stop(st)

\* the body of EditVecState::cancel without the removal of the inserted row
cancel_row_keeps(st, row) ==
    IF st.mode = "Insert" /\ row >= Len(st.data)
    THEN [st EXCEPT !.panicked = TRUE]
    ELSE _stop(st)

\* the body of EditVecState::cancel for the selected row
cancel_row(st, row) ==
    IF st.mode = "Insert"
    THEN IF row >= Len(st.data) THEN [st EXCEPT !.panicked = TRUE]
         ELSE cancel_stop(table_items_removed(
                [st EXCEPT !.data = RemoveAt(@, row)], row, 1))
    ELSE _stop(st)

\* EditVecState::cancel
cancel(st) ==
    IF st.mode = "View" THEN st
    ELSE IF st.selection.lead_row = None THEN st
    ELSE cancel_row(st, st.selection.lead_row[1])

\* EditVecState::commit with the order of get_edit_data and _stop exchanged
commit_stops_first(st, fails) ==
    IF st.mode = "View" THEN [st EXCEPT !.result = "Ok"]
    ELSE IF st.selection.lead_row = None THEN [st EXCEPT !.result = "Ok"]
    ELSE IF st.selection.lead_row[1] >= Len(st.data)
    THEN [st EXCEPT !.panicked = TRUE]
    ELSE IF fails = "get_edit_data"
    THEN _stop([st EXCEPT !.result = "Err"])
    ELSE _stop([st EXCEPT
                    !.data[st.selection.lead_row[1] + 1] = st.editor[1],
                    !.result = "Ok"])

\* EditVecState::commit
commit(st, fails) ==
    IF st.mode = "View" THEN [st EXCEPT !.result = "Ok"]
    ELSE IF st.selection.lead_row = None THEN [st EXCEPT !.result = "Ok"]
    ELSE IF st.selection.lead_row[1] >= Len(st.data)
    THEN [st EXCEPT !.panicked = TRUE]
    ELSE IF fails = "get_edit_data" THEN [st EXCEPT !.result = "Err"]
    ELSE _stop([st EXCEPT
                    !.data[st.selection.lead_row[1] + 1] = st.editor[1],
                    !.result = "Ok"])

\* what follows the ? of a call that returned st
failed(st) == st.panicked \/ st.result = "Err"

\* EditVecState::commit_and_append after its commit
append_after(st, fails) ==
    IF failed(st) THEN st
    ELSE IF st.selection.lead_row = None THEN st
    ELSE edit_new(st, st.selection.lead_row[1] + 1, fails)

\* EditVecState::commit_and_append; fails1 is for the commit, fails2 for the
\* edit_new
commit_and_append(st, fails1, fails2) ==
    append_after(commit(st, fails1), fails2)

\* EditVecState::commit_and_edit after its commit, for the row that was
\* selected before
edit_after(st, row, fails) ==
    IF failed(st) THEN st
    ELSE edit([st EXCEPT !.selection = selection_select(@, Some(row + 1))],
              row + 1, fails)

\* EditVecState::commit_and_edit
commit_and_edit(st, fails1, fails2) ==
    IF st.selection.lead_row = None THEN [st EXCEPT !.result = "Ok"]
    ELSE edit_after(commit(st, fails1), st.selection.lead_row[1], fails2)

\* the state after an operation of the editor that returned st; result is
\* what the last call returned, Ok for a call that returns nothing
Edited(st) ==
    /\ mode' = st.mode
    /\ editor_data' = st.data
    /\ editor' = st.editor
    /\ result' = st.result
    /\ table_focus' = st.table_focus
    /\ editor_focus' = st.editor_focus
    /\ rows' = st.rows
    /\ offset' = st.offset
    /\ max_offset' = st.max_offset
    /\ selection' = st.selection
    /\ panicked' = st.panicked
    /\ ret' = FALSE
    /\ UNCHANGED render_vars

\* the rows handed to edit and remove: those of the collection and one
\* beyond them; edit_new also takes the end of the collection
EditRows == 0..Len(editor_data)
EditNewRows == 0..(Len(editor_data) + 1)

\* History of an edit: pre holds what the edit that is under way, or that
\* the last call ended, started from.  focus tells whether the table had the
\* focus then; data and rows are kept while direct holds, that is until
\* another call than the edit_new that started the edit has been made.
session(st, direct) ==
    Some([data |-> IF direct THEN st.data ELSE <<>>,
          rows |-> IF direct THEN st.rows ELSE 0,
          focus |-> st.table_focus,
          direct |-> direct])

undirect(p) ==
    IF p = None THEN None
    ELSE Some([data |-> <<>>, rows |-> 0, focus |-> p[1].focus,
               direct |-> FALSE])

\* pre after a call that led from st to new
history(st, new, direct) ==
    IF st.mode = "View"
    THEN (IF new.mode # "View" THEN session(st, direct) ELSE None)
    ELSE undirect(pre)

\* pre after a commit that led from ST to mid, followed by a call that led
\* to new
history2(mid, new) ==
    IF mode # "View" /\ (failed(mid) \/ mid.mode # "View" \/ new.mode = "View")
    THEN undirect(pre)
    ELSE history(mid, new, FALSE)

\* edit_new and edit return at once in a mode other than View, and commit
\* in View mode or without a selected row: the arguments are not read, and
\* one call stands for all of them
Unread(row, fails) == mode # "View" => (row = 0 /\ fails = "none")
Uncommitted(fails) ==
    (mode = "View" \/ selection.lead_row = None) => fails = "none"

\* EditVecState::remove
Remove(row) ==
    /\ ~panicked
    /\ op' = "remove"
    /\ arg' = 0
    /\ pre' = history(ST, ST, FALSE)
    /\ Edited([remove(ST, row) EXCEPT !.result = "Ok"])

\* EditVecState::edit_new; in View mode from a state whose data has room for
\* one more row.  pre keeps the rows and the row count an edit_new in View
\* mode started from, arg the operation of the editor that failed when the
\* call got to it.
EditNew(row, fails) ==
    /\ ~panicked
    /\ mode = "View" =>
            (Len(editor_data) <= MaxEditRows /\ rows <= MaxEditRows)
    /\ Unread(row, fails)
    /\ op' = "edit_new"
    /\ arg' = IF mode = "View" THEN fails ELSE "none"
    /\ pre' = history(ST, edit_new(ST, row, fails), TRUE)
    /\ Edited(edit_new(ST, row, fails))

\* EditVecState::edit
Edit(row, fails) ==
    /\ ~panicked
    /\ Unread(row, fails)
    /\ op' = "edit"
    /\ arg' = IF mode = "View" /\ row < Len(editor_data)
              THEN fails ELSE "none"
    /\ pre' = history(ST, edit(ST, row, fails), FALSE)
    /\ Edited(edit(ST, row, fails))

\* EditVecState::cancel; pre is kept as it is when the cancel follows the
\* edit_new
Cancel ==
    /\ ~panicked
    /\ op' = "cancel"
    /\ arg' = 0
    /\ pre' = IF mode = "View" THEN None
              ELSE IF op = "edit_new" THEN pre
              ELSE undirect(pre)
    /\ Edited([cancel(ST) EXCEPT !.result = "Ok"])

\* EditVecState::commit
Commit(fails) ==
    /\ ~panicked
    /\ Uncommitted(fails)
    /\ op' = "commit"
    /\ arg' = IF mode # "View" /\ selection.lead_row # None
              THEN fails ELSE "none"
    /\ pre' = history(ST, ST, FALSE)
    /\ Edited(commit(ST, fails))

\* EditVecState::commit_and_append
CommitAndAppend(fails1, fails2) ==
    /\ ~panicked
    /\ Len(editor_data) <= MaxEditRows
    /\ rows <= MaxEditRows
    /\ Uncommitted(fails1)
    /\ op' = "commit_and_append"
    /\ arg' = 0
    /\ pre' = history2(commit(ST, fails1),
                        commit_and_append(ST, fails1, fails2))
    /\ Edited(commit_and_append(ST, fails1, fails2))

\* EditVecState::commit_and_edit
CommitAndEdit(fails1, fails2) ==
    /\ ~panicked
    /\ Uncommitted(fails1)
    /\ op' = "commit_and_edit"
    /\ arg' = 0
    /\ pre' = history2(commit(ST, fails1),
                        commit_and_edit(ST, fails1, fails2))
    /\ Edited(commit_and_edit(ST, fails1, fails2))

\* the editor widget handles a key while a row is edited: its value changes
EditorHandle(value) ==
    /\ ~panicked
    /\ mode \in {"Insert", "Edit"}
    /\ editor' = Some(value)
    /\ op' = "handle"
    /\ arg' = 0
    /\ pre' = undirect(pre)
    /\ result' = "Ok"
    /\ UNCHANGED <<render_vars, rows, offset, max_offset, panicked, ret,
                   selection, mode, editor_data, table_focus, editor_focus>>

\* the focus of the application moves to the table or away from it; it
\* cannot while the overlay locks the navigation
SetFocus(focused) ==
    /\ ~panicked
    /\ navigable # "Lock"
    /\ table_focus' = focused
    /\ op' = "focus"
    /\ arg' = 0
    /\ pre' = None
    /\ UNCHANGED <<render_vars, rows, offset, max_offset, panicked, ret,
                   selection, mode, editor_data, editor, result,
                   editor_focus>>

\* the table EditVec::render builds from the rows of the editor: one line a
\* row
edit_table ==
    [repr |-> "Data", data |-> [i \in 1..Len(editor_data) |-> 1],
     report |-> None, cloned |-> TRUE, no_row_count |-> FALSE]

\* EditVec::render: the table renders the rows of the editor
RenderEdit(H) ==
    /\ op' = "render_edit"
    /\ render_iter(into_iter(edit_table), H)

\* EditVecState::new over the rows the application loaded, before the
\* first render
InitEdit ==
    /\ InitTableState
    /\ table.repr = "None"
    /\ selection = RowSelection
    /\ editor_data \in DataSeqs
    /\ NoColumns

NextEdit ==
    \/ \E H \in {0, MaxEditHeight} : RenderEdit(H)
    \/ \E row \in EditRows : Remove(row)
    \/ \E row \in EditNewRows, fails \in FailuresNew : EditNew(row, fails)
    \/ \E row \in EditRows, fails \in FailuresEdit : Edit(row, fails)
    \/ Cancel
    \/ \E fails \in FailuresCommit : Commit(fails)
    \/ \E fails1 \in FailuresCommit, fails2 \in FailuresNew :
            CommitAndAppend(fails1, fails2)
    \/ \E fails1 \in FailuresCommit, fails2 \in FailuresEdit :
            CommitAndEdit(fails1, fails2)
    \/ \E value \in Values : EditorHandle(value)

SpecEdit == InitEdit /\ [][NextEdit]_vars

\* the overlay inside an application that moves the focus
NextFocus ==
    \/ \E H \in {0, MaxEditHeight} : RenderEdit(H)
    \/ \E focused \in BOOLEAN : SetFocus(focused)
    \/ \E row \in EditNewRows, fails \in FailuresNew : EditNew(row, fails)
    \/ \E row \in EditRows, fails \in FailuresEdit : Edit(row, fails)
    \/ Cancel
    \/ \E fails \in FailuresCommit : Commit(fails)
    \/ \E value \in Values : EditorHandle(value)

SpecFocus == InitEdit /\ [][NextFocus]_vars

\* ================================================================ claims
\* The source the last render read, stated from the widget's data alone.
Rendered == op \in {"render", "render_ref"}
SrcInvalid == op = "render_ref" /\ table.repr = "Iter" /\ ~table.cloned
SrcHeights == IF SrcInvalid THEN <<1>> ELSE table.data
SrcRows == Len(SrcHeights)
SrcReport ==
    IF SrcInvalid THEN Some(1)
    ELSE IF table.repr = "Iter" THEN table.report
    ELSE Some(Len(table.data))
SrcExact == SrcReport = Some(SrcRows)

RECURSIVE SumSeq(_)
SumSeq(s) == IF s = <<>> THEN 0 ELSE s[1] + SumSeq(Tail(s))

\* the heights of the rows with index >= from (0 based)
RowsFrom(d, from) == SubSeq(d, Min2(from, Len(d)) + 1, Len(d))
SumLast(d, k) == SumSeq(RowsFrom(d, Len(d) - k))

\* The number of trailing rows that fill the last page: the smallest k
\* whose last k heights sum to at least H, all rows when they do not.
LastPageRowCount(d, H) ==
    IF \E k \in 0..Len(d) : SumLast(d, k) >= H
    THEN CHOOSE k \in 0..Len(d) :
            /\ SumLast(d, k) >= H
            /\ \A j \in 0..(k - 1) : SumLast(d, j) < H
    ELSE Len(d)

RegimeAExact == Rendered /\ algorithm = 0 /\ SrcExact

\* C1: after a Regime-A render of a source that reports and yields R rows,
\* max_offset = R - last_page_row_count, for every assignment of row
\* heights and every offset; stated here for the table heights H >= 1.
C1_MaxOffsetLastPage ==
    (RegimeAExact /\ table_area_height >= 1) =>
        max_offset = SrcRows - LastPageRowCount(SrcHeights, table_area_height)

C3_InsaneOffset ==
    /\ (Rendered /\ SrcReport # None /\ SrcReport # Some(0)
            /\ SrcRows <= SrcReport[1] /\ offset >= SrcReport[1])
        => /\ ~panicked
           /\ page_len = 0
           /\ page_row = None
           /\ debug_assertions => "insane_offset" \in diag
    /\ (Rendered /\ (SrcReport = None \/ SrcReport = Some(0)))
        => "insane_offset" \notin diag

C3_Witness ==
    /\ Rendered /\ debug_assertions
    /\ SrcExact /\ SrcRows = MaxRows
    /\ offset > SrcRows
    /\ page_len = 0
    /\ "insane_offset" \in diag

\* C4: in Regime A, when the source yields more or fewer rows than the
\* count R it reports, the render does not panic and does not underflow,
\* and sets max_offset = max(0, R - H); stated here for the table heights
\* H >= 1.
C4_MiscountFallback ==
    (Rendered /\ algorithm = 0 /\ ~SrcExact /\ table_area_height >= 1) =>
        /\ ~panicked
        /\ max_offset = saturating_sub(SrcReport[1], table_area_height)

\* C5 (as stated): when the reported count disagrees with the number of
\* rows iterated, TableState::rows is the iterated count afterwards.
C5_Original ==
    (Rendered /\ algorithm = 0 /\ SrcReport[1] # counted_rows) =>
        rows = counted_rows

\* C5 (amended): after a Regime-A render TableState::rows is the count the
\* source reports, also when the number of rows iterated differs; the
\* iterated count is kept in _counted_rows only.
C5_RowsIsReported ==
    (Rendered /\ algorithm = 0) => rows = SrcReport[1]

\* a render of a miscounting source that iterated all of its rows
C5_Witness ==
    /\ Rendered /\ algorithm = 0 /\ ~panicked
    /\ ~SrcExact
    /\ counted_rows = SrcRows
    /\ rows # counted_rows

RegimeB == Rendered /\ algorithm = 1
\* rows of the source after the page rendered by the last render
RowsAfterPage == SrcRows - map_or_count(page_row)

\* C6 (as stated): a Regime-B render advances the source by at most two
\* rows beyond the page; when a row exists after the page, rows becomes
\* (rows up to the end of the page) + 1 and max_offset the sentinel.
C6_Original ==
    RegimeB =>
        /\ probed <= 2
        /\ (page_row # None /\ RowsAfterPage >= 1) =>
                /\ rows = map_or_count(page_row) + 1
                /\ max_offset = USIZE_MAX - 1

\* C6 (amended): a Regime-B render advances the source by at most two rows
\* beyond the page and sets max_offset to the sentinel usize::MAX - 1; when
\* exactly one row exists after the page, rows becomes (rows up to the end
\* of the page) + 1, and when two or more exist rows becomes usize::MAX.
C6_ProbeSentinel ==
    RegimeB =>
        /\ probed <= 2
        /\ max_offset = USIZE_MAX - 1
        /\ (page_row # None /\ RowsAfterPage = 1) =>
                rows = map_or_count(page_row) + 1
        /\ (page_row # None /\ RowsAfterPage >= 2) => rows = USIZE_MAX

\* a Regime-B render with two or more rows after its page
C6_Witness ==
    /\ RegimeB
    /\ page_row # None
    /\ RowsAfterPage >= 2
    /\ probed = 2
    /\ rows = USIZE_MAX

\* no row after the page of the last render: the source is exhausted
Exhausted == page_row = None \/ RowsAfterPage = 0

\* C7 (as stated): when a Regime-B render finds no row after the page,
\* rows becomes the true number of rows and max_offset becomes exact, for
\* every offset.
C7_Original ==
    (RegimeB /\ Exhausted) =>
        /\ rows = SrcRows
        /\ max_offset <= SrcRows

\* C7 (amended): when a Regime-B render finds no row after the page, rows
\* becomes the number of rows the pass visited: the true number of rows
\* when the offset lies inside the data, 0 when no row is reached; and
\* max_offset stays the sentinel usize::MAX - 1.
C7_ExhaustedCount ==
    (RegimeB /\ Exhausted) =>
        /\ rows = IF offset < SrcRows THEN SrcRows ELSE 0
        /\ max_offset = USIZE_MAX - 1

\* a Regime-B render of the last page of a source with rows
C7_Witness ==
    /\ RegimeB
    /\ page_row # None
    /\ RowsAfterPage = 0
    /\ SrcRows >= 2
    /\ rows = SrcRows

\* C8: after a Regime-C render rows is the true number of rows and
\* max_offset that number minus the trailing rows that fill the last page,
\* for every offset; stated here for the table heights H >= 1.
C8_FullScanExact ==
    (Rendered /\ algorithm = 2 /\ table_area_height >= 1) =>
        /\ rows = SrcRows
        /\ max_offset =
             SrcRows - LastPageRowCount(SrcHeights, table_area_height)

\* C9: render_ref of a forward iterator whose cloned() yields no cursor
\* does not panic, reports one row and max_offset 0, and renders exactly
\* one row at offset 0.
C9_InvalidIter ==
    (op = "render_ref" /\ table.repr = "Iter" /\ ~table.cloned) =>
        /\ ~panicked
        /\ algorithm = 0
        /\ rows = 1
        /\ offset = 0 => (page_len = 1 /\ page_row = Some(0) /\ max_offset = 0)
        /\ offset > 0 => page_len = 0
        /\ table_area_height >= 1 => max_offset = 0

C9_Witness ==
    /\ op = "render_ref" /\ table.repr = "Iter" /\ ~table.cloned
    /\ Len(table.data) = MaxRows
    /\ offset = 0
    /\ page_len = 1
    /\ rows = 1

\* C10: a second scroll_to_row(target) right after a first one leaves the
\* vertical offset unchanged and returns false.
C10_ScrollToRowIdempotent ==
    [][(op = "scroll_to_row" /\ op' = "scroll_to_row" /\ arg' = arg)
            => (offset' = offset /\ ret' = FALSE)]_vars

\* C11: scroll_to_row(target) sets the offset to target - page_len + 1
\* when the target lies below the page, to target when it lies above it,
\* and leaves it alone (returning false) otherwise; afterwards
\* offset <= target < offset + page_len.
C11_ScrollToRowVisible ==
    [][op' = "scroll_to_row" =>
        /\ arg' >= offset + page_len => offset' = arg' - page_len + 1
        /\ (arg' < offset + page_len /\ arg' < offset) => offset' = arg'
        /\ (arg' < offset + page_len /\ arg' >= offset) =>
                (offset' = offset /\ ret' = FALSE)
        /\ offset' <= arg' /\ arg' < offset' + page_len']_vars

\* the operation that led here is items_added(pos, n) / items_removed(pos, n)
Added == op = "items_added"
Removed == op = "items_removed"
\* the lead row of a RowSelection, -1 when nothing is selected
Lead(sel) == IF sel.lead_row = None THEN -1 ELSE sel.lead_row[1]

\* C12: items_added(pos, n) followed by items_removed(pos, n) restores the
\* row count and the selected row, for a lead that was not inside
\* [pos, pos + n).
C12_AddedRemovedRestores ==
    (Removed /\ pre # None
        /\ ~(Lead(pre[1].selection) >= arg[1]
                /\ Lead(pre[1].selection) < arg[1] + arg[2]))
    => /\ ~panicked
       /\ rows = pre[1].rows
       /\ selection = pre[1].selection

\* two rows were added before a selected row and removed again
C12_Witness ==
    /\ Removed /\ pre # None /\ ~panicked
    /\ arg[2] = 2
    /\ Lead(pre[1].selection) >= arg[1] + 2
    /\ pre[1].rows >= 1
    /\ rows = pre[1].rows
    /\ Lead(selection) = Lead(pre[1].selection)

\* C13: items_added(pos, n) adds n to the row count, to every selected
\* index >= pos and to the scroll bookkeeping; items_removed(pos, n) of
\* rows that exist takes n from the row count and from a selected index
\* past the removed range and moves one inside the range onto pos; an
\* index < pos is left alone by both.
C13_ItemsShift ==
    [][/\ op' = "items_added" =>
            /\ rows' = rows + arg'[2]
            /\ Lead(selection') =
                 IF Lead(selection) >= arg'[1]
                 THEN Lead(selection) + arg'[2] ELSE Lead(selection)
            /\ offset' = IF offset >= arg'[1] THEN offset + arg'[2]
                         ELSE offset
            /\ max_offset' = max_offset + arg'[2]
       /\ (op' = "items_removed" /\ arg'[2] <= rows) =>
            /\ ~panicked'
            /\ rows' = rows - arg'[2]
            /\ Lead(selection') =
                 IF Lead(selection) >= arg'[1] + arg'[2]
                 THEN Lead(selection) - arg'[2]
                 ELSE IF Lead(selection) >= arg'[1] THEN arg'[1]
                 ELSE Lead(selection)]_vars

\* two rows were added at the selected row
C13_Witness ==
    /\ Added /\ arg[2] = 2
    /\ pre # None
    /\ Lead(pre[1].selection) = arg[1]
    /\ Lead(selection) = arg[1] + 2
    /\ rows = pre[1].rows + 2
    /\ offset >= 2

MovedSelection == op \in {"move_to", "move_up", "move_down"}

\* C15: after move_to, move_up and move_down the selected row lies in
\* [0, N - 1] for the row count N the state holds: no row is selected that
\* does not exist.
C15_SelectedRowExists ==
    MovedSelection => (Lead(selection) >= 0 /\ Lead(selection) < rows)

\* C16 (as stated): move_to, move_up and move_down return true if and only
\* if the selection changed; stated here for the states with a page of
\* one row or more.
C16_Original ==
    [][(op' \in {"move_to", "move_up", "move_down"} /\ page_len >= 1) =>
            (ret' = (selection' # selection))]_vars

\* C16 (amended): move_to, move_up and move_down return true if and only
\* if the selection or the vertical offset changed.
C16_ReturnsChanged ==
    [][op' \in {"move_to", "move_up", "move_down"} =>
            (ret' = (selection' # selection \/ offset' # offset))]_vars

\* a move that kept the selected row, scrolled back to it in a page of
\* two or more rows and returned true
C16_Witness ==
    /\ op = "move_to" /\ ret
    /\ selection.lead_row = Some(arg)
    /\ page_len >= 2
    /\ arg >= 1
    /\ offset = arg

\* C17: after move_to, move_up and move_down the selected row is visible:
\* offset <= selected < offset + page_len.
C17_SelectedVisible ==
    MovedSelection =>
        /\ offset <= Lead(selection)
        /\ Lead(selection) < offset + page_len


\* C18: starting in View mode, edit_new(r) followed by cancel() leaves the
\* row count and the rows of the backing collection as they were before the
\* edit_new and returns to View mode, for every r in [0, len] and every
\* state of the table, rendered or not.
C18_EditNewCancelRestores ==
    (op = "cancel" /\ pre # None /\ pre[1].direct /\ ~panicked) =>
        /\ editor_data = pre[1].data
        /\ rows = pre[1].rows
        /\ mode = "View"

EditMode == mode \in {"Insert", "Edit"}

\* C19: edit_new, edit and remove called in Insert or Edit mode return Ok
\* and leave mode, backing collection, row count, selection and edit buffer
\* unchanged; the mode changes only View->Insert by edit_new, View->Edit by
\* edit and Insert/Edit->View by commit and cancel (commit_and_append and
\* commit_and_edit are a commit followed by an edit_new or an edit).
C19_Step ==
    /\ (op' \in {"edit_new", "edit", "remove"} /\ EditMode) =>
            /\ ~panicked'
            /\ op' # "remove" => result' = "Ok"
            /\ UNCHANGED <<mode, editor_data, rows, selection, editor>>
    /\ mode' # mode =>
            \/ mode = "View" /\ mode' = "Insert"
                /\ op' \in {"edit_new", "commit_and_append"}
            \/ mode = "View" /\ mode' = "Edit"
                /\ op' \in {"edit", "commit_and_edit"}
            \/ EditMode /\ mode' = "View"
                /\ op' \in {"commit", "cancel",
                            "commit_and_append", "commit_and_edit"}
            \/ EditMode /\ mode' = "Insert" /\ op' = "commit_and_append"
            \/ EditMode /\ mode' = "Edit" /\ op' = "commit_and_edit"

C19_ModeGuard == [][C19_Step]_vars

\* an edit_new that was called while a row was being inserted
C19_Witness ==
    /\ op = "edit_new"
    /\ arg = "none"
    /\ pre # None
    /\ ~pre[1].direct
    /\ mode = "Insert"
    /\ Len(editor_data) >= 2
    /\ ~panicked

\* C20: a failed commit returns the error and leaves the mode Insert/Edit,
\* the selected row and the row count as they were; a failed edit_new or
\* edit returns the error and leaves the mode View and the backing collection
\* and the row count as they were; commit_and_append and commit_and_edit
\* fail as their commit or as their edit_new/edit does.
C20_Step ==
    /\ (op' = "commit" /\ arg' = "get_edit_data" /\ EditMode
            /\ selection.lead_row # None /\ ~panicked') =>
            result' = "Err"
    /\ (op' = "commit" /\ result' = "Err") =>
            /\ EditMode
            /\ UNCHANGED <<mode, selection, rows, editor_data>>
    /\ (op' \in {"edit_new", "edit"} /\ arg' # "none" /\ mode = "View"
            /\ ~panicked') =>
            result' = "Err"
    /\ (op' \in {"edit_new", "edit"} /\ result' = "Err") =>
            /\ mode = "View"
            /\ UNCHANGED <<mode, rows, editor_data>>
    /\ (op' \in {"commit_and_append", "commit_and_edit"}
            /\ result' = "Err") =>
            \/ EditMode /\ UNCHANGED <<mode, selection, rows, editor_data>>
            \/ /\ mode' = "View"
               /\ rows' = rows
               /\ Len(editor_data') = Len(editor_data)

C20_FailureKeepsState == [][C20_Step]_vars

\* a commit of an inserted row that failed
C20_Witness ==
    /\ op = "commit"
    /\ arg = "get_edit_data"
    /\ result = "Err"
    /\ mode = "Insert"
    /\ selection.lead_row # None
    /\ ~panicked

\* C21: a successful commit in Insert or Edit mode writes the edit buffer to
\* the selected row of the backing collection, changes no other row and no
\* row count, releases the focus lock and returns to View; the navigation is
\* locked exactly while the mode is Insert or Edit; if the table had the
\* focus when the edit started it has it again after commit or cancel.
C21_Step ==
    /\ (op' = "commit" /\ EditMode /\ selection.lead_row # None
            /\ result' = "Ok" /\ ~panicked') =>
            /\ editor_data' =
                [editor_data EXCEPT ![selection.lead_row[1] + 1] = editor[1]]
            /\ rows' = rows
            /\ mode' = "View"
            /\ navigable' # "Lock"
    /\ (navigable' = "Lock") <=> (mode' \in {"Insert", "Edit"})
    /\ (op' \in {"commit", "cancel"} /\ EditMode /\ mode' = "View"
            /\ pre' # None) =>
            (pre'[1].focus => table_focus')

C21_Commit == [][C21_Step]_vars

\* a commit that wrote a changed value and gave the focus back to the table
C21_Witness ==
    /\ op = "commit"
    /\ arg = "none"
    /\ mode = "View"
    /\ pre # None
    /\ pre[1].focus
    /\ table_focus
    /\ Len(editor_data) >= 2
    /\ selection.lead_row # None
    /\ selection.lead_row[1] < Len(editor_data)
    /\ editor_data[selection.lead_row[1] + 1] = editor[1]
    /\ editor[1] \in Values
    /\ ~panicked

\* the row that is selected, when one is
Selected == selection.lead_row[1]

\* C22: commit_and_append while the row r is edited commits row r and then
\* does edit_new(r + 1): afterwards the mode is Insert, the row count has
\* grown by one, a default row is at index r + 1 and r + 1 is selected.
C22_Step ==
    (op' = "commit_and_append" /\ EditMode /\ selection.lead_row # None
        /\ result' = "Ok" /\ ~panicked') =>
        /\ mode' = "Insert"
        /\ Len(editor_data') = Len(editor_data) + 1
        /\ rows' = rows + 1
        /\ editor_data'[Selected + 1] = editor[1]
        /\ editor_data'[Selected + 2] = NewValue
        /\ selection'.lead_row = Some(Selected + 1)

C22_CommitAndAppend == [][C22_Step]_vars

\* C23: commit_and_edit while the row r is edited commits row r, selects the
\* next row and starts to edit it: afterwards the mode is Edit, r + 1 is
\* selected, the edit buffer is a copy of row r + 1 and the row count is
\* unchanged, for every selected row r of the collection, the last one
\* included, without panic.
C23_Step ==
    (op' = "commit_and_edit" /\ EditMode /\ selection.lead_row # None
        /\ Selected < Len(editor_data) /\ result' = "Ok") =>
        /\ ~panicked'
        /\ mode' = "Edit"
        /\ selection'.lead_row = Some(Selected + 1)
        /\ Len(editor_data') = Len(editor_data)
        /\ rows' = rows
        /\ editor_data'[Selected + 1] = editor[1]
        /\ editor' = Some(editor_data'[Selected + 2])

C23_CommitAndEdit == [][C23_Step]_vars

\* the number of rows of the backing collection
RowCount == Len(editor_data)

\* C24 as stated: no operation invoked while the mode is Insert or Edit
\* changes the number of rows of the backing collection, and the rows
\* change only by commit and cancel in Insert or Edit mode.
C24_OriginalStep ==
    /\ EditMode => RowCount' = RowCount
    /\ (RowCount' = RowCount /\ editor_data' # editor_data) =>
            (EditMode /\ op' \in {"commit", "cancel", "commit_and_append",
                                  "commit_and_edit"})

C24_Original == [][C24_OriginalStep]_vars

\* C24 amended: in Insert or Edit mode edit_new, edit, remove and commit
\* leave the number of rows alone; cancel in Insert mode removes the
\* inserted row, and commit_and_append inserts a row after its commit.  In
\* View mode only remove, edit_new and commit_and_append change the number
\* of rows.  The values of the rows change only by a commit made in Insert
\* or Edit mode.
C24_Step ==
    /\ (EditMode /\ op' \in {"edit_new", "edit", "remove", "commit",
                             "commit_and_edit", "handle", "render_edit"}) =>
            RowCount' = RowCount
    /\ (EditMode /\ op' = "cancel" /\ mode = "Edit") =>
            editor_data' = editor_data
    /\ (op' = "cancel" /\ mode = "Insert" /\ selection.lead_row # None
            /\ ~panicked') =>
            editor_data' = RemoveAt(editor_data, Selected)
    /\ (EditMode /\ op' = "commit_and_append" /\ ~panicked') =>
            RowCount' \in {RowCount, RowCount + 1}
    /\ (mode = "View" /\ RowCount' # RowCount) =>
            op' \in {"remove", "edit_new", "commit_and_append"}
    /\ (RowCount' = RowCount /\ editor_data' # editor_data) =>
            (EditMode /\ op' \in {"commit", "commit_and_append",
                                  "commit_and_edit"})

C24_RowCount == [][C24_Step]_vars

\* a cancel that removed the row its edit_new had inserted
C24_Witness ==
    /\ op = "cancel"
    /\ mode = "View"
    /\ pre # None
    /\ pre[1].direct
    /\ RowCount >= 1
    /\ RowCount = Len(pre[1].data)
    /\ ~panicked

\* ------------------------------------------- columns, TableState<CellSelection>
\* The widget of this part has auto_layout_width set, Constraint::Length
\* for every column and Flex::Start, where the layout solver places each
\* column at the sum of the widths and spacings before it.
MaxColumns == 2       \* columns of the widget
MaxColWidth == 2      \* width of one column
MaxSpacing == 1       \* column_spacing
MaxAreaWidth == 4     \* width of the area handed to a render
MaxX == 4             \* offsets handed to set_x_offset

WidthSeqs == UNION {[1..n -> 1..MaxColWidth] : n \in 0..MaxColumns}

\* a block without border, or with Borders::ALL
Borders == {0, 1}

\* CellSelection::default
CellSelection == [lead_cell |-> None]

\* tables of MaxRows rows of height 1
ColumnTables ==
    {t \in Tables :
        /\ t.repr = "Data"
        /\ Len(t.data) = MaxRows
        /\ \A i \in 1..Len(t.data) : t.data[i] = 1}

\* the vertical fields of TableState and the widget
page_vars == <<table, debug_assertions, table_area_height, rows,
               counted_rows, max_offset, page_len, diag, algorithm,
               page_row, probed>>

\* TableState::set_x_offset: ScrollState keeps the offset it is given
set_x_offset(xo, new) == [offset |-> new, changed |-> new # xo]

\* TableState::scroll_to_col
scroll_to_col(layout, xo, page, pos) ==
    IF pos < Len(layout)
    THEN IF layout[pos + 1].x < xo
         THEN set_x_offset(xo, layout[pos + 1].x)
         ELSE IF Right(layout[pos + 1]) >= xo + page
         THEN set_x_offset(xo, Right(layout[pos + 1]) - page)
         ELSE [offset |-> xo, changed |-> FALSE]
    ELSE [offset |-> xo, changed |-> FALSE]

\* TableState::scroll_to_x
scroll_to_x(xo, page, pos) ==
    IF pos >= xo + page THEN set_x_offset(xo, pos - page + 1)
    ELSE IF pos < xo THEN set_x_offset(xo, pos)
    ELSE [offset |-> xo, changed |-> FALSE]

\* CellSelection::lead_selection
lead_selection(sel) == sel.lead_cell

\* TableState::scroll_to_selected: both offsets and whether one changed
scroll_to_selected(sel) ==
    IF lead_selection(sel) # None
    THEN [x_offset |->
            scroll_to_x(x_offset, x_page_len, lead_selection(sel)[1][1]).offset,
          offset |-> scroll_to_row(lead_selection(sel)[1][2]).offset,
          changed |->
            \/ scroll_to_row(lead_selection(sel)[1][2]).changed
            \/ scroll_to_x(x_offset, x_page_len,
                           lead_selection(sel)[1][1]).changed]
    ELSE [x_offset |-> x_offset, offset |-> offset, changed |-> FALSE]

\* CellSelection::move_to: the cell, limited to the maximum
cell_move_to(sel, select, maxima) ==
    [lead_cell |-> Some(<<Min2(select[1], maxima[1]),
                          Min2(select[2], maxima[2])>>)]

\* TableState::row_cells: None, or the area of the row and the areas of
\* its cells; the index into row_areas may lie outside of it
row_cells(row) ==
    IF row >= offset /\ offset + page_len > USIZE_MAX /\ debug_assertions
    THEN [kind |-> "panic"]
    ELSE IF row < offset \/ row >= wrapping(offset + page_len)
    THEN [kind |-> "None"]
    ELSE IF row >= Len(row_areas)
    THEN [kind |-> "panic"]
    ELSE [kind |-> "Some", row_area |-> row_areas[row + 1],
          areas |-> column_areas]

SetXOffset(new) ==
    /\ ~panicked
    /\ x_offset' = set_x_offset(x_offset, new).offset
    /\ ret' = set_x_offset(x_offset, new).changed
    /\ op' = "set_x_offset"
    /\ arg' = new
    /\ UNCHANGED <<page_vars, offset, panicked, sel_vars, edit_vars,
                   config_vars, geometry_vars>>

ScrollToCol(pos) ==
    /\ ~panicked
    /\ x_offset' = scroll_to_col(column_layout, x_offset, x_page_len,
                                 pos).offset
    /\ ret' = scroll_to_col(column_layout, x_offset, x_page_len,
                            pos).changed
    /\ op' = "scroll_to_col"
    /\ arg' = pos
    /\ UNCHANGED <<page_vars, offset, panicked, sel_vars, edit_vars,
                   config_vars, geometry_vars>>

ScrollToSelected ==
    /\ ~panicked
    /\ x_offset' = scroll_to_selected(selection).x_offset
    /\ offset' = scroll_to_selected(selection).offset
    /\ ret' = scroll_to_selected(selection).changed
    /\ op' = "scroll_to_selected"
    /\ arg' = 0
    /\ UNCHANGED <<page_vars, panicked, sel_vars, edit_vars, config_vars,
                   geometry_vars>>

\* TableState<CellSelection>::move_to
MoveToCell(col, row) ==
    \E new \in {cell_move_to(selection, <<col, row>>,
                             <<saturating_sub(columns, 1),
                               saturating_sub(rows, 1)>>)} :
        /\ ~panicked
        /\ selection' = new
        /\ x_offset' = scroll_to_selected(new).x_offset
        /\ offset' = scroll_to_selected(new).offset
        /\ ret' = (new # selection \/ scroll_to_selected(new).changed)
        /\ op' = "move_to_cell"
        /\ arg' = 0
        /\ UNCHANGED <<page_vars, panicked, pre, edit_vars, config_vars,
                       geometry_vars>>

RowCells(row) ==
    /\ ~panicked
    /\ panicked' = (row_cells(row).kind = "panic")
    /\ ret' = row_cells(row)
    /\ op' = "row_cells"
    /\ arg' = row
    /\ UNCHANGED <<page_vars, offset, sel_vars, edit_vars, col_vars>>

\* one row, shown whole: the horizontal operations alone
InitColumns ==
    /\ InitTableState
    /\ table \in ColumnTables
    /\ ~debug_assertions
    /\ selection = CellSelection
    /\ editor_data = <<>>
    /\ widths \in WidthSeqs
    /\ column_spacing \in 0..MaxSpacing
    /\ border \in Borders
    /\ area_width \in 0..MaxAreaWidth

NextColumns ==
    \/ \E H \in {MaxAreaHeight} : Render(H)
    \/ \E new \in 0..MaxX : SetXOffset(new)
    \/ \E pos \in 0..MaxColumns : ScrollToCol(pos)

SpecColumns == InitColumns /\ [][NextColumns]_vars

\* columns without spacing in a block without border: the operations on
\* cells
InitCells ==
    /\ InitTableState
    /\ table \in ColumnTables
    /\ ~debug_assertions
    /\ selection = CellSelection
    /\ editor_data = <<>>
    /\ widths \in WidthSeqs
    /\ widths # <<>>
    /\ column_spacing = 0
    /\ border = 0
    /\ area_width \in 1..MaxColWidth

NextCells ==
    \/ \E H \in 1..MaxHeight : Render(H)
    \/ \E new \in 0..(MaxRows - 1) : SetRowOffset(new)
    \/ ScrollToSelected
    \/ \E col \in 0..MaxColumns, row \in 0..MaxRows : MoveToCell(col, row)
    \/ \E row \in 0..MaxRows : RowCells(row)

SpecCells == InitCells /\ [][NextCells]_vars

\* the region [left, right) of a column meets [lo, lo + width)
Intersects(cell, lo, width) ==
    \E p \in cell.x..(Right(cell) - 1) : p >= lo /\ p < lo + width

\* C25: a render that shows a row calls render_cell for a column exactly
\* if the region of the column intersects
\* [x_offset, x_offset + area_width); a column entirely outside of it is
\* skipped
C25_Step ==
    (op' = "render" /\ row_areas' # <<>>) =>
        \A col \in 0..(Len(widths) - 1) :
            (col \in rendered_cols') <=>
                Intersects(l_columns[col + 1], x_offset', area_width)

C25_VisibleCells == [][C25_Step]_vars

\* the positions of the table area that show a position of the column
\* when the columns are shifted left by shift
Shown(col, shift, area) ==
    {p \in area.x..(Right(area) - 1) :
        \E q \in col.x..(Right(col) - 1) : p - area.x = q - shift}

\* C28: for a valid column whose layout width does not exceed the width of
\* the table area, scroll_to_col leaves the layout region of the column
\* inside [x_offset, x_offset + table_area.width) and a second call changes
\* nothing; for an invalid column it returns false and changes nothing
C28_Step ==
    (op' = "scroll_to_col") =>
        /\ (arg' < Len(column_layout)
                /\ column_layout[arg' + 1].width <= table_area.width) =>
            /\ column_layout[arg' + 1].x >= x_offset'
            /\ Right(column_layout[arg' + 1])
                    <= x_offset' + table_area.width
            /\ ~scroll_to_col(column_layout, x_offset', x_page_len,
                              arg').changed
        /\ arg' >= Len(column_layout) =>
            (~ret' /\ x_offset' = x_offset)

C28_ScrollToCol == [][C28_Step]_vars

\* C30: a render leaves one entry per column in column_layout and in
\* column_areas; column_layout is the one of the render before, whatever
\* the horizontal offset; column_areas[i] is column_layout[i] shifted left
\* by the offset and clipped to the table area, of width 0 when nothing of
\* it is left
C30_Step ==
    (op' = "render") =>
        /\ columns' = Len(widths)
        /\ Len(column_layout') = Len(widths)
        /\ Len(column_areas') = Len(widths)
        /\ column_layout # <<>> => column_layout' = column_layout
        /\ \A i \in 1..Len(widths) :
            /\ column_layout'[i].x = l_columns[i].x
            /\ column_layout'[i].width = widths[i] + column_spacing
            /\ column_areas'[i].width =
                    Cardinality(Shown(column_layout'[i], x_offset',
                                      table_area'))
            /\ column_areas'[i].width > 0 =>
                    column_areas'[i].x \in
                        Shown(column_layout'[i], x_offset', table_area')
            /\ column_areas'[i].width > 0 =>
                    \A p \in Shown(column_layout'[i], x_offset',
                                   table_area') : column_areas'[i].x <= p

C30_ColumnLayout == [][C30_Step]_vars

\* a second render at another offset: one column scrolled out of view and
\* one clipped
C30_Witness ==
    /\ op = "render"
    /\ x_offset > 0
    /\ column_layout # <<>>
    /\ \E i \in 1..Len(column_areas) : column_areas[i].width = 0
    /\ \E i \in 1..Len(column_areas) :
        /\ column_areas[i].width > 0
        /\ column_areas[i].width < column_layout[i].width

\* C27: row_cells(row) is None for a row outside [offset, offset + page_len)
\* and otherwise the entry of row_areas at row - offset with one cell area
\* per column; it never panics
C27_Step ==
    (op' = "row_cells") =>
        /\ ~panicked'
        /\ ret'.kind = (IF arg' < offset \/ arg' >= offset + page_len
                        THEN "None" ELSE "Some")
        /\ ret'.kind = "Some" =>
            /\ ret'.row_area = row_areas[arg' - offset + 1]
            /\ Len(ret'.areas) = columns

C27_RowCells == [][C27_Step]_vars

\* C29: scroll_to_selected returns true exactly if an offset changed; with
\* nothing selected it changes nothing; with a lead cell, the row of the
\* lead lies in the page and the layout region of its column meets
\* [x_offset, x_offset + table_area.width)
C29_Step ==
    (op' = "scroll_to_selected") =>
        /\ ret' = (x_offset' # x_offset \/ offset' # offset)
        /\ selection.lead_cell = None =>
            (~ret' /\ x_offset' = x_offset /\ offset' = offset)
        /\ (selection.lead_cell # None /\ page_len > 0) =>
            /\ selection.lead_cell[1][2] >= offset'
            /\ selection.lead_cell[1][2] < offset' + page_len
        /\ (selection.lead_cell # None
                /\ selection.lead_cell[1][1] < Len(column_layout)
                /\ table_area.width > 0) =>
            Intersects(column_layout[selection.lead_cell[1][1] + 1],
                       x_offset', table_area.width)

C29_ScrollToSelected == [][C29_Step]_vars

\* --------------------------------------------------- the selection style
\* a Style, as the sequence of the styles patched into it
Style(name) == <<name>>

\* Option<Style> of a configured style
StyleOptions(name) == {None, Some(Style(name))}

\* what one cell hands to the resolution of its selection style: the
\* answers of the selection, the styles and flags of the widget and the
\* focus of the state
StyleInputs ==
    [selected_cell : BOOLEAN, selected_row : BOOLEAN,
     selected_column : BOOLEAN,
     select_cell_style : StyleOptions("cell"),
     select_row_style : StyleOptions("row"),
     select_column_style : StyleOptions("column"),
     focus_style : StyleOptions("focus"),
     show_cell_focus : BOOLEAN, show_row_focus : BOOLEAN,
     show_column_focus : BOOLEAN, focus : BOOLEAN]

\* Style::patch
patch(style, other) == style \o other

\* revert_style of the base style of the table
revert_style(style) == <<"reversed">> \o style

\* Table::patch_select that does not look at the show flag
patch_select_shown(focus_style, style, focus, show) ==
    IF style # None
    THEN IF focus_style # None
         THEN IF focus
              THEN Some(patch(style[1], focus_style[1]))
              ELSE style
         ELSE style
    ELSE None

\* Table::patch_select
patch_select(focus_style, style, focus, show) ==
    IF style # None
    THEN IF focus_style # None
         THEN IF focus /\ show
              THEN Some(patch(style[1], focus_style[1]))
              ELSE style
         ELSE style
    ELSE None

\* Table::render_iter: ctx.select_style of one cell
select_style(in) ==
    IF in.selected_cell
    THEN patch_select(in.focus_style, in.select_cell_style, in.focus,
                      in.show_cell_focus)
    ELSE IF in.selected_row
    THEN IF in.select_row_style # None
         THEN patch_select(in.focus_style, in.select_row_style, in.focus,
                           in.show_row_focus)
         ELSE patch_select(in.focus_style, Some(revert_style(Style("base"))),
                           in.focus, in.show_row_focus)
    ELSE IF in.selected_column
    THEN patch_select(in.focus_style, in.select_column_style, in.focus,
                      in.show_column_focus)
    ELSE None

SelectStyle(in) ==
    /\ ~panicked
    /\ op' = "select_style"
    /\ arg' = in
    /\ ret' = select_style(in)
    /\ UNCHANGED <<page_vars, offset, panicked, sel_vars, edit_vars,
                   col_vars>>

InitStyle ==
    /\ InitTableState
    /\ table.repr = "None"
    /\ ~debug_assertions
    /\ selection = CellSelection
    /\ editor_data = <<>>
    /\ NoColumns

NextStyle == \E in \in StyleInputs : SelectStyle(in)

SpecStyle == InitStyle /\ [][NextStyle]_vars

\* the selection kind of highest priority a cell has
Kind(in) ==
    IF in.selected_cell THEN "cell"
    ELSE IF in.selected_row THEN "row"
    ELSE IF in.selected_column THEN "column"
    ELSE "none"

\* the selection style of that kind
Resolved(in) ==
    CASE Kind(in) = "cell" -> in.select_cell_style
      [] Kind(in) = "row" ->
            IF in.select_row_style = None
            THEN Some(revert_style(Style("base"))) ELSE in.select_row_style
      [] Kind(in) = "column" -> in.select_column_style
      [] Kind(in) = "none" -> None

\* the show-focus flag of that kind
Show(in) ==
    CASE Kind(in) = "cell" -> in.show_cell_focus
      [] Kind(in) = "row" -> in.show_row_focus
      [] Kind(in) = "column" -> in.show_column_focus
      [] Kind(in) = "none" -> FALSE

\* C26: the selection style of a cell is the one of the selection kind of
\* highest priority (cell, then row with the reversed base style as
\* fallback, then column, else none); the focus style is patched on top
\* exactly if a style was resolved, a focus style is configured, the table
\* has the focus and the show flag of that kind is set
C26_SelectStyle ==
    (op = "select_style") =>
        ret = (IF /\ Resolved(arg) # None
                  /\ arg.focus_style # None
                  /\ arg.focus
                  /\ Show(arg)
               THEN Some(patch(Resolved(arg)[1], arg.focus_style[1]))
               ELSE Resolved(arg))

\* a cell selected by cell, row and column, whose cell style got the focus
\* style while the row's show flag is not set
C26_Witness ==
    /\ op = "select_style"
    /\ arg.selected_cell
    /\ arg.selected_row
    /\ arg.selected_column
    /\ ~arg.show_row_focus
    /\ ret = Some(patch(Style("cell"), Style("focus")))

\* C38: after a render pass page_len is the number of entries of row_areas,
\* and the first entry is the row at the offset
C38_PageLenRowAreas ==
    (Rendered /\ ~panicked) =>
        /\ page_len = Len(row_areas)
        /\ row_areas # <<>> => row_areas[1] = offset

\* ------------------------------------------ what a render leaves alone
\* sources of every regime, empty or of MaxRows rows of height 1: a
\* TableData, and
\* iterators that report their count, that report none with no_row_count
\* set, and that report none without it
FrameTables ==
    {t \in Tables :
        /\ t.cloned
        /\ Len(t.data) \in {0, MaxRows}
        /\ \A i \in 1..Len(t.data) : t.data[i] = 1
        /\ t.report \in {None, Some(Len(t.data))}}

InitFrame ==
    /\ InitTableState
    /\ table \in FrameTables
    /\ selection = CellSelection
    /\ editor_data = <<>>
    /\ widths = [i \in 1..MaxColumns |-> MaxColWidth]
    /\ column_spacing = 0
    /\ border = 0
    /\ area_width = MaxColWidth

NextFrame ==
    \/ \E H \in {0, MaxAreaHeight} : Render(H)
    \/ \E new \in {0, 1, MaxOffset} : SetRowOffset(new)
    \/ \E new \in {0, 1, MaxX} : SetXOffset(new)
    \/ \E col \in {0, MaxColumns}, row \in {0, MaxRows} : MoveToCell(col, row)

SpecFrame == InitFrame /\ [][NextFrame]_vars

\* C39: a render pass leaves the vertical offset, the horizontal offset and
\* the selection as they were, and the widget as well
C39_Step ==
    (op' = "render") =>
        /\ offset' = offset
        /\ x_offset' = x_offset
        /\ selection' = selection
        /\ table' = table
        /\ widths' = widths

C39_RenderFrame == [][C39_Step]_vars

\* a render in Regime B with a selected cell and both offsets past their
\* maxima; the vertical one past the end of the data
C39_Witness ==
    /\ op = "render"
    /\ ~panicked
    /\ algorithm = 1
    /\ offset > Len(table.data)
    /\ x_offset > x_max_offset
    /\ selection.lead_cell # None

\* C37: a render in Regime A of a source that yields the rows it reports,
\* from an offset inside the data (or of an empty source), counts the rows
\* it reports and raises no diagnostic
C37_NoSpuriousDiagnostics ==
    (Rendered /\ algorithm = 0 /\ SrcExact /\ ~panicked
        /\ (offset < SrcRows \/ SrcRows = 0)) =>
            /\ counted_rows = SrcRows
            /\ rows = SrcRows
            /\ diag = {}

\* ------------------------------------------------- the cursor, stepped
\* DataRepr::into_iter followed by calls of DataReprIter::nth on the
\* cursor of an empty or a random-access source.  arg holds the cursor,
\* index the sum of (n + 1) over the calls made less one, and failed
\* whether a call has returned false; ret holds what the last call
\* returned.
MaxCalls == 3
CursorTables == {t \in Tables : t.repr \in {"None", "Data"}}
SkipCounts == 0..MaxN \cup {USIZE_MAX}

IntoIter ==
    /\ op = "default"
    /\ op' = "into_iter"
    /\ arg' = [it |-> into_iter(table), index |-> -1, failed |-> FALSE,
               calls |-> 0]
    /\ UNCHANGED <<page_vars, offset, panicked, ret, sel_vars, edit_vars,
                   col_vars>>

Nth(n) ==
    /\ op \in {"into_iter", "nth"}
    /\ ~panicked
    /\ arg.calls < MaxCalls
    /\ LET r == nth(arg.it, n)
       IN  /\ op' = "nth"
           /\ arg' = [it |-> r.it, index |-> arg.index + n + 1,
                      failed |-> arg.failed \/ ~r.ok,
                      calls |-> arg.calls + 1]
           /\ ret' = r.ok
           /\ panicked' = (r.overflow /\ debug_assertions)
    /\ UNCHANGED <<page_vars, offset, sel_vars, edit_vars, col_vars>>

InitCursor ==
    /\ InitTableState
    /\ table \in CursorTables
    /\ selection = CellSelection
    /\ editor_data = <<>>
    /\ NoColumns

NextCursor ==
    \/ IntoIter
    \/ \E n \in SkipCounts : Nth(n)

SpecCursor == InitCursor /\ [][NextCursor]_vars

\* C33: the cursor of an empty or a random-access source only moves
\* forward: after the calls nth(n_1), ..., nth(n_k) it stands at
\* (n_1 + 1) + ... + (n_k + 1) - 1, a call returns true exactly when that
\* index is below the number of rows, no call returns true after one
\* returned false, and the cursor of an empty source always returns
\* false and reports 0 rows.
C33_Step ==
    op' = "nth" =>
        /\ ~panicked'
        /\ table.repr = "Data" =>
            /\ arg'.it.row = Some(arg'.index)
            /\ ret' = (arg'.index < Len(table.data))
        /\ arg.failed => ~ret'
        /\ table.repr = "None" =>
            /\ ~ret'
            /\ rows_of(arg'.it) = Some(0)
C33_ForwardOnly == [][C33_Step]_vars

\* ------------------------------------------------------------ dragging
\* A position is given by its row relative to the top of the table area
\* (negative above it) and by its column on the screen.
MaxDist == 2

RECURSIVE row_area_top(_)
\* the top of the i-th entry of row_areas: row_y of the render loop
row_area_top(i) ==
    IF i <= 1 THEN 0
    ELSE row_area_top(i - 1) + SrcHeights[row_areas[i - 1] + 1]

\* the bottom of the i-th entry of row_areas, clipped to the table area
row_area_bottom(i) ==
    Max2(row_area_top(i),
         Min2(row_area_top(i) + SrcHeights[row_areas[i] + 1],
              table_area_height))

Ok(v) == [ok |-> TRUE, v |-> v]
Err(v) == [ok |-> FALSE, v |-> v]

\* rat_event::util::row_at_drag(table_area, row_areas, y): the area hit,
\* or the signed distance to the areas in rows
util_row_at_drag(y) ==
    IF \E i \in 1..Len(row_areas) :
            y >= row_area_top(i) /\ y < row_area_bottom(i)
    THEN Ok(CHOOSE i \in 0..(Len(row_areas) - 1) :
                y >= row_area_top(i + 1) /\ y < row_area_bottom(i + 1))
    ELSE IF y < 0 THEN Err(y)
    ELSE IF row_areas # <<>>
    THEN Err(y - row_area_bottom(Len(row_areas)) + 1)
    ELSE Err(y + 1)

\* rat_event::util::column_at_drag(table_area, column_areas, x)
util_column_at_drag(x) ==
    IF \E i \in 1..Len(column_areas) :
            x >= column_areas[i].x /\ x < Right(column_areas[i])
    THEN Ok(CHOOSE i \in 0..(Len(column_areas) - 1) :
                x >= column_areas[i + 1].x /\ x < Right(column_areas[i + 1]))
    ELSE IF x < table_area.x THEN Err(x - table_area.x)
    ELSE IF column_areas # <<>>
    THEN Err(x - Right(column_areas[Len(column_areas)]) + 1)
    ELSE Err(x - table_area.x + 1)

\* TableState::row_at_drag
row_at_drag(y) ==
    LET r == util_row_at_drag(y)
    IN  IF r.ok THEN offset + r.v
        ELSE IF r.v <= 0 THEN saturating_sub(offset, -r.v)
        ELSE offset + Len(row_areas) + r.v

\* TableState::column_at_drag: Err(_) => todo!()
column_at_drag(x) ==
    LET r == util_column_at_drag(x)
    IN  IF r.ok THEN [kind |-> "Some", v |-> r.v] ELSE [kind |-> "panic"]

RowAtDrag(y) ==
    /\ ~panicked
    /\ ret' = row_at_drag(y)
    /\ op' = "row_at_drag"
    /\ arg' = y
    /\ UNCHANGED <<page_vars, offset, panicked, sel_vars, edit_vars,
                   col_vars>>

ColumnAtDrag(x) ==
    /\ ~panicked
    /\ panicked' = (column_at_drag(x).kind = "panic")
    /\ ret' = IF column_at_drag(x).kind = "panic" THEN -1
              ELSE column_at_drag(x).v
    /\ op' = "column_at_drag"
    /\ arg' = x
    /\ UNCHANGED <<page_vars, offset, sel_vars, edit_vars, col_vars>>

\* a random-access source behind a block with or without a border
InitDrag ==
    /\ InitTableState
    /\ table.repr = "Data"
    /\ selection = CellSelection
    /\ editor_data = <<>>
    /\ widths = [i \in 1..MaxColumns |-> MaxColWidth]
    /\ column_spacing = 0
    /\ border \in Borders
    /\ area_width = MaxAreaWidth

NextDrag ==
    \/ \E H \in {0, MaxAreaHeight} : Render(H)
    \/ \E new \in {0, 1, MaxOffset} : SetRowOffset(new)
    \/ \E y \in (0 - MaxDist)..(MaxAreaHeight + MaxDist) : RowAtDrag(y)
    \/ \E x \in 0..(MaxAreaWidth + 1) : ColumnAtDrag(x)

SpecDrag == InitDrag /\ [][NextDrag]_vars

\* C32: row_at_drag and column_at_drag return an index for every position
\* and never panic; above the table area row_at_drag returns the offset
\* less the distance in rows, not below 0, below the table area it
\* returns offset + page_len + distance, and left or right of the table
\* area column_at_drag returns a column.
C32_Step ==
    /\ op' \in {"row_at_drag", "column_at_drag"} => ~panicked'
    /\ (op' = "row_at_drag" /\ arg' < 0) =>
            ret' = saturating_sub(offset, 0 - arg')
    /\ (op' = "row_at_drag" /\ arg' >= table_area_height) =>
            ret' = offset + page_len + (arg' - table_area_height + 1)
    /\ op' = "column_at_drag" => ret' \in 0..(columns - 1)
C32_DragTotal == [][C32_Step]_vars

\* ------------------------------------------- scrolling at the sentinels
\* TableState::remap_offset_selection: self.rows * offset in usize
remap_offset_selection(off) ==
    IF max_offset > 0
    THEN [v |-> wrapping(rows * off) \div max_offset,
          overflow |-> rows * off > USIZE_MAX]
    ELSE [v |-> 0, overflow |-> FALSE]

RemapOffsetSelection(off) ==
    /\ ~panicked
    /\ panicked' = (remap_offset_selection(off).overflow /\ debug_assertions)
    /\ ret' = remap_offset_selection(off).v
    /\ op' = "remap_offset_selection"
    /\ arg' = off
    /\ UNCHANGED <<page_vars, offset, sel_vars, edit_vars, col_vars>>

\* the scrollbar hands an offset between 0 and max_offset to the table
ScrollTo(new) ==
    /\ new <= max_offset
    /\ SetRowOffset(new)

\* sources that report their count exactly or not at all
ScrollTables ==
    {t \in Tables : t.cloned /\
        (t.report = None \/ t.report = Some(Len(t.data)))}

InitScroll ==
    /\ InitTableState
    /\ table \in ScrollTables
    /\ selection = CellSelection
    /\ editor_data = <<>>
    /\ NoColumns

NextScroll ==
    \/ \E H \in {0, MaxAreaHeight} : Render(H)
    \/ \E new \in {0, 1, USIZE_MAX - 1} : ScrollTo(new)
    \/ \E pos \in {0, MaxPos, USIZE_MAX} : ScrollToRow(pos)
    \/ \E row \in {0, USIZE_MAX - 1} : RowCells(row)
    \/ \E off \in {0, 1, 2} : RemapOffsetSelection(off)

SpecScroll == InitScroll /\ [][NextScroll]_vars

\* C40: in the states a render leaves, with an offset of at most
\* max_offset, offset + page_len in scroll_to_row and in row_cells,
\* pos - page_len + 1 in scroll_to_row, rows - last_page in the render
\* and rows * offset in remap_offset_selection stay within the range of
\* usize.
C40_Step ==
    /\ op' = "scroll_to_row" =>
        /\ offset + page_len <= USIZE_MAX
        /\ arg' >= offset + page_len => arg' >= page_len
    /\ (op' = "row_cells" /\ arg' >= offset) =>
            offset + page_len <= USIZE_MAX
    /\ op' = "render" =>
        /\ ~panicked'
        /\ algorithm' = 0 => max_offset' <= rows'
    /\ (op' = "remap_offset_selection" /\ max_offset > 0) =>
            rows * arg' <= USIZE_MAX
C40_NoOverflow == [][C40_Step]_vars

\* ------------------------------------- the row count and the collection
\* the operations of the editor
EditorOps ==
    {"remove", "edit_new", "edit", "cancel", "commit", "commit_and_append",
     "commit_and_edit"}

\* C35: remove, edit_new, edit, cancel, commit, commit_and_append and
\* commit_and_edit keep the row count of the table equal to the length of
\* the backing collection when it was equal before; and from a state
\* where it is not (rows loaded, the table not rendered, row count 0) no
\* operation underflows the row count, and a cancel removes no other row
\* than the one the edit_new before it inserted.
C35_Step ==
    /\ (op' \in EditorOps /\ rows = Len(editor_data) /\ ~panicked') =>
            rows' = Len(editor_data')
    /\ (op' \in {"remove", "cancel"}
            /\ Len(editor_data') < Len(editor_data)) =>
            /\ ~panicked'
            /\ rows' = rows - 1
    /\ (op = "edit_new" /\ op' = "cancel" /\ pre # None /\ pre[1].direct
            /\ ~panicked') =>
            editor_data' = pre[1].data
C35_RowCountFollows == [][C35_Step]_vars

\* C36: while the mode is Insert or Edit a row is selected and its index
\* is valid in the backing collection; it is the row the edit buffer
\* belongs to: after edit_new the row where the placeholder was inserted,
\* after edit the row the buffer was copied from, and an operation that
\* leaves the edit under way leaves the selected row.
C36_Step ==
    /\ (mode' \in {"Insert", "Edit"} /\ ~panicked') =>
            /\ selection'.lead_row # None
            /\ selection'.lead_row[1] < Len(editor_data')
    /\ (mode = "View" /\ mode' = "Insert" /\ op' = "edit_new"
            /\ ~panicked') =>
            editor_data' =
                InsertAt(editor_data, selection'.lead_row[1], NewValue)
    /\ (mode = "View" /\ mode' = "Edit" /\ op' = "edit" /\ ~panicked') =>
            editor' = Some(editor_data[selection'.lead_row[1] + 1])
    /\ (mode \in {"Insert", "Edit"} /\ mode' \in {"Insert", "Edit"}
            /\ op' \notin {"commit_and_append", "commit_and_edit"}) =>
            selection' = selection
C36_SelectedIsEdited == [][C36_Step]_vars

\* ------------------------------------------------------ event handling
\* The events: the keys the handlers name, a turn of the mouse wheel and a
\* click on the first row shown.
Keys == {"Esc", "Enter", "Up", "Down", "Insert", "Delete", "F2"}
MouseEvents == {"ScrollDown", "Click"}
Events == Keys \cup MouseEvents

\* Option<usize> < Option<usize>: None is less than every Some
OptLess(a, b) == b # None /\ (a = None \/ a[1] < b[1])

\* the event handler of the table itself, for the keymap Regular or, with
\* mouse_only, MouseOnly: the keys move the selection, the wheel moves the
\* offset and a click selects the row under it
table_handle(st, event, mouse_only) ==
    CASE event = "Up" /\ ~mouse_only ->
            table_moved(st, selection_move_up(
                st.selection, 1, saturating_sub(st.rows, 1)))
      [] event = "Down" /\ ~mouse_only ->
            table_moved(st, selection_move_down(
                st.selection, 1, saturating_sub(st.rows, 1)))
      [] event = "ScrollDown" ->
            [st EXCEPT !.offset = IF @ < st.max_offset THEN @ + 1 ELSE @]
      [] event = "Click" /\ row_areas # <<>> ->
            table_move_to(st, row_areas[1])
      [] OTHER -> st

\* EditVecState::handle while a row is edited, for an event the editor
\* widget does not consume
handle_editing(st, event, fails1, fails2) ==
    CASE event = "Esc" -> [cancel(st) EXCEPT !.result = "Ok"]
      [] event = "Enter" ->
            IF OptLess(st.selection.lead_row,
                       Some(saturating_sub(st.rows, 1)))
            THEN commit_and_edit(st, fails1, fails2)
            ELSE commit_and_append(st, fails1, fails2)
      [] event \in {"Up", "Down"} -> commit(st, fails1)
      [] OTHER -> [st EXCEPT !.result = "Ok"]

\* EditVecState::handle in View mode
handle_view(st, event, fails) ==
    CASE event = "Insert" ->
            IF st.selection.lead_row # None
            THEN edit_new(st, st.selection.lead_row[1], fails)
            ELSE [st EXCEPT !.result = "Ok"]
      [] event = "Delete" ->
            IF st.selection.lead_row # None
            THEN [remove(st, st.selection.lead_row[1]) EXCEPT
                    !.result = "Ok"]
            ELSE [st EXCEPT !.result = "Ok"]
      [] event \in {"Enter", "F2"} ->
            IF st.selection.lead_row # None
            THEN edit(st, st.selection.lead_row[1], fails)
            ELSE [st EXCEPT !.result = "Ok"]
      [] event = "Down" /\ st.selection.lead_row # None
            /\ st.selection.lead_row[1] = saturating_sub(st.rows, 1) ->
            edit_new(st, st.selection.lead_row[1] + 1, fails)
      [] OTHER -> [table_handle(st, event, FALSE) EXCEPT !.result = "Ok"]

\* EditVecState::handle
handle(st, event, fails1, fails2) ==
    IF st.mode \in {"Insert", "Edit"}
    THEN handle_editing(st, event, fails1, fails2)
    ELSE handle_view(st, event, fails2)

\* EditVecState::handle for an event the editor widget leaves to it; the
\* editor in use fails at translating data or not at all
Handle(event, fails1, fails2) ==
    /\ ~panicked
    /\ Len(editor_data) <= MaxEditRows
    /\ rows <= MaxEditRows
    /\ op' = "handle_event"
    /\ arg' = event
    /\ pre' = None
    /\ Edited(handle(ST, event, fails1, fails2))

\* FEditTableState::handle with the table focused, and the table's
\* MouseOnly handler without: handle_edit_events.  The edit state is set
\* while a row is edited.  outcome is the EditOutcome returned.
handle_edit_events(st, focus, event) ==
    IF ~focus
    THEN [st |-> table_handle(st, event, TRUE), outcome |-> "Table"]
    ELSE IF st.mode \in {"Insert", "Edit"}
    THEN [st |-> st,
          outcome |->
            CASE event = "Esc" -> "Cancel"
              [] event \in {"Enter", "Up"} -> "Commit"
              [] event = "Down" /\ st.selection.lead_row
                    # Some(saturating_sub(st.rows, 1)) -> "Commit"
              [] OTHER -> "NotUsed"]
    ELSE CASE event = "Insert" -> [st |-> st, outcome |-> "Insert"]
           [] event = "Delete" -> [st |-> st, outcome |-> "Remove"]
           [] event \in {"Enter", "F2"} -> [st |-> st, outcome |-> "Edit"]
           [] event = "Down" /\ st.selection.lead_row # None
                /\ st.selection.lead_row[1] = saturating_sub(st.rows, 1) ->
                [st |-> st, outcome |-> "Append"]
           [] OTHER ->
                [st |-> table_handle(st, event, FALSE), outcome |-> "Table"]

HandleEditEvents(focus, event) ==
    /\ ~panicked
    /\ rows <= MaxEditRows + 1
    /\ op' = "handle_edit_events"
    /\ arg' = event
    /\ pre' = None
    /\ selection' = handle_edit_events(ST, focus, event).st.selection
    /\ offset' = handle_edit_events(ST, focus, event).st.offset
    /\ ret' = handle_edit_events(ST, focus, event).outcome
    /\ UNCHANGED <<render_vars, rows, max_offset, panicked, edit_vars>>

NextKeys ==
    \/ \E H \in {0, MaxEditHeight} : RenderEdit(H)
    \/ \E event \in Events, fails1 \in FailuresCommit,
          fails2 \in {"none", "set_edit_data"} :
            Handle(event, fails1, fails2)
    \/ \E focus \in BOOLEAN, event \in Events :
            HandleEditEvents(focus, event)
    \/ \E value \in Values : EditorHandle(value)

SpecKeys == InitEdit /\ [][NextKeys]_vars

\* C31: while a row is edited no event reaches the event handler of the
\* table: its selection and its vertical offset change only with a
\* cancel, a commit, a commit_and_append or a commit_and_edit, which
\* EditVecState::handle calls for Esc, Enter, Up and Down.
C31_Step ==
    (mode \in {"Insert", "Edit"}
        /\ op' \in {"handle_event", "handle_edit_events", "handle"}
        /\ (selection' # selection \/ offset' # offset)) =>
            /\ op' = "handle_event"
            /\ arg' \in {"Esc", "Enter", "Up", "Down"}
C31_Intercepted == [][C31_Step]_vars

\* C34: while a row is edited Esc cancels and leaves View mode; a
\* successful Enter commits and edits the next row when the selected row
\* is not the last one, and commits and appends a row when it is, so the
\* mode stays Insert or Edit; Up and Down commit and leave View mode.  In
\* View mode Down starts an insert at the index rows exactly when the
\* last row is selected (selected = rows - 1), without panic, and Insert,
\* Delete, Enter and F2 do nothing without a selected row.
C34_Step ==
    op' = "handle_event" =>
        /\ (mode \in {"Insert", "Edit"} /\ arg' = "Esc" /\ ~panicked') =>
                mode' = "View"
        /\ (mode \in {"Insert", "Edit"} /\ arg' = "Enter" /\ ~panicked'
                /\ result' = "Ok" /\ selection.lead_row # None) =>
                IF selection.lead_row[1] < rows - 1
                THEN /\ mode' = "Edit"
                     /\ selection'.lead_row = Some(selection.lead_row[1] + 1)
                     /\ Len(editor_data') = Len(editor_data)
                ELSE /\ mode' = "Insert"
                     /\ Len(editor_data') = Len(editor_data) + 1
        /\ (mode \in {"Insert", "Edit"} /\ arg' \in {"Up", "Down"}
                /\ ~panicked' /\ result' = "Ok") =>
                mode' = "View"
        /\ (mode = "View" /\ arg' = "Down") =>
                /\ ~panicked'
                /\ result' = "Ok" =>
                    /\ (mode' = "Insert") =
                            (selection.lead_row = Some(rows - 1))
                    /\ mode' = "Insert" =>
                            editor_data' =
                                InsertAt(editor_data, rows, NewValue)
        /\ (mode = "View" /\ arg' \in {"Insert", "Delete", "Enter", "F2"}
                /\ selection.lead_row = None) =>
                UNCHANGED <<mode, editor_data, rows, selection, offset>>
C34_Keys == [][C34_Step]_vars

====
